---- MODULE Spec2Model ----
(***************************************************************************)
(* Router scopes of packages/router/src/scope.ts: the Scope tree, the      *)
(* instruction matching pass (Scope.findViewports) and the ViewportScope   *)
(* content lifecycle over a shared backing collection.                     *)
(*                                                                         *)
(* Objects live in heaps addressed by stable indices:                      *)
(*   scopes        Scope objects together with their owner (Viewport or    *)
(*                 ViewportScope), one record per connectedScope           *)
(*   collections   the arrays given as options.source                      *)
(*   itemId        the id property of every collection item ever made      *)
(*   instructions  ViewportInstruction objects                             *)
(* A reference is the index of the object, Null (0) is JavaScript null and *)
(* Undefined (-1) is JavaScript undefined.                                 *)
(***************************************************************************)
EXTENDS Integers, Sequences, FiniteSets, TLC

VARIABLES scopes, collections, itemId, instructions, last, prev, ops, promises, routes

vars == <<scopes, collections, itemId, instructions, last, prev, ops, promises, routes>>

Null == 0
Undefined == -1

\* Number.NEGATIVE_INFINITY, the value of Math.max() of no arguments.
NegInfinity == -1000000

(***************************************************************************)
(* Bounds of the model.                                                    *)
(***************************************************************************)
\* Items the backing collection holds when the slots are constructed.
MaxInitItems == 2
\* Sibling slots of the lifecycle specification.
MaxSlots == 2
\* Operations called on the slots in one run of the lifecycle specification.
MaxSlotOps == 3
\* The operations on the one slot of SpecSlotDeep
MaxDeepOps == 6
\* The entries of the catches of a slot (SpecAccept)
MaxCatches == 2
\* Scopes constructed below the root scope in the tree specification.
MaxTreeScopes == 3
\* The longest list of instructions handed to findViewports (SpecMatch)
MaxInstructions == 2
\* The scopes below the root whose canLeave is asked (SpecLeave)
MaxLeaveScopes == 3
\* The segments of a path given to findMatchingRoute, the calls of
\* findMatchingRoute and changes of what it returned (SpecRoute)
MaxSegments == 4
MaxCalls == 2
\* Scopes constructed below the root, and calls made, under SpecChildren
MaxChildScopes == 3
MaxChildOps == 3
\* Calls of addViewport, each adding at most one viewport, under SpecViewports
MaxViewports == 3
\* Children of the root, and calls made, under SpecReplaced
MaxReplaced == 3
MaxReplaceOps == 3
\* Children of the scope findMatchingRoute is called on, under SpecSearch
MaxSearchChildren == 2

(***************************************************************************)
(* JavaScript Array operations on sequences; indices are 0-based as in the *)
(* source.                                                                 *)
(***************************************************************************)
Min(a, b) == IF a < b THEN a ELSE b
Max(a, b) == IF a > b THEN a ELSE b

RECURSIVE IndexFrom(_, _, _)
IndexFrom(arr, x, i) ==
  IF i > Len(arr) THEN -1
  ELSE IF arr[i] = x THEN i - 1
  ELSE IndexFrom(arr, x, i + 1)

\* Array.prototype.indexOf
indexOf(arr, x) == IndexFrom(arr, x, 1)

\* Array.prototype.includes
includes(arr, x) == indexOf(arr, x) >= 0

\* Array.prototype.splice(start, deleteCount, ...items): the array afterwards.
splice(arr, start, deleteCount, items) ==
  LET len == Len(arr)
      s   == IF start < 0 THEN Max(len + start, 0) ELSE Min(start, len)
      d   == Min(Max(deleteCount, 0), len - s)
  IN SubSeq(arr, 1, s) \o items \o SubSeq(arr, s + d + 1, len)

\* arrayRemove(arr, value => value === x) of utils: removes every occurrence.
arrayRemove(arr, x) == SelectSeq(arr, LAMBDA v : v # x)

Range(seq) == { seq[i] : i \in DOMAIN seq }

\* A slot's content and nextContent hold the instruction object itself:
\* << >> is null, << instruction >> an instruction.
NullContent == << >>

(***************************************************************************)
(* Heap records.                                                           *)
(***************************************************************************)
\* new Scope(router, hasScope, owningScope, viewport, viewportScope, ...)
\* together with the fields of its owner.  kind tells which owner the
\* scope has: "viewport", "viewportScope" or "scope" (none).
Scope(self, kind, hasScope, owningScope, name) ==
  [ kind              |-> kind,
    parent            |-> Null,
    children          |-> << >>,
    replacedChildren  |-> << >>,
    enabled           |-> TRUE,
    hasScope          |-> hasScope,
    owningScope       |-> IF owningScope = Null THEN self ELSE owningScope,
    name              |-> name,
    \* Viewport
    element           |-> Null,
    usedBy            |-> << >>,
    \* ViewportScope
    catches           |-> << >>,
    rootComponentType |-> FALSE,
    source            |-> Null,
    content           |-> NullContent,
    nextContent       |-> NullContent,
    sourceItem        |-> Null,
    sourceItemIndex   |-> -1,
    remove            |-> FALSE,
    add               |-> FALSE ]

\* An index of the scope heap that holds no object yet.
FreeScope == [ Scope(Null, "free", FALSE, Null, "") EXCEPT !.enabled = FALSE ]

\* new ViewportScope(name, router, element, owningScope, scope,
\* rootComponentType, options); content is the instruction created for
\* catches[0], when there is one.
ViewportScope(self, name, owningScope, scope, rootComponentType, catches, source, content) ==
  [ Scope(self, "viewportScope", scope, owningScope, name) EXCEPT
      !.rootComponentType = rootComponentType,
      !.catches = catches,
      !.source = source,
      !.content = IF Len(catches) > 0 THEN content ELSE NullContent ]

\* new ViewportInstruction(component, viewport)
ViewportInstruction(componentName, viewportName) ==
  [ componentName          |-> componentName,
    viewportName           |-> viewportName,
    viewport               |-> Null,
    viewportScope          |-> Null,
    scope                  |-> Null,
    needsViewportDescribed |-> FALSE,
    ownsScope              |-> TRUE,
    nextScopeInstructions  |-> << >>,
    parameters             |-> << >>,
    route                  |-> Null ]

\* The sentinels of the instruction resolver.
clearViewportInstruction == "-"
addViewportInstruction == "+"

\* InstructionResolver.isClearViewportInstruction(instruction)
isClearViewportInstruction(ins) ==
  /\ ins.componentName = clearViewportInstruction
  /\ (ins.viewport # Null \/ ins.viewportName # "")

\* InstructionResolver.isClearAllViewportsInstruction(instruction)
isClearAllViewportsInstruction(ins) ==
  /\ ins.componentName = clearViewportInstruction
  /\ ins.viewport = Null
  /\ ins.viewportName = ""

\* InstructionResolver.isAddViewportInstruction(instruction)
isAddViewportInstruction(ins) ==
  ins.componentName = addViewportInstruction

(***************************************************************************)
(* The program state handed through an operation.  threw tells that the    *)
(* operation ended by an exception (a TypeError); what it had assigned     *)
(* before stays assigned.  full tells that the heap of the model had no    *)
(* room for an object the operation constructs.                            *)
(***************************************************************************)
State ==
  [ scopes |-> scopes, collections |-> collections, itemId |-> itemId,
    instructions |-> instructions, threw |-> FALSE, full |-> FALSE ]

Throw(st) == [ st EXCEPT !.threw = TRUE ]

(***************************************************************************)
(* Scope getters.                                                          *)
(***************************************************************************)
isViewport(st, s) == st.scopes[s].kind = "viewport"
isViewportScope(st, s) == st.scopes[s].kind = "viewportScope"

\* ViewportScope.passThroughScope, read through Scope.passThroughScope
passThroughScope(st, s) ==
  /\ isViewportScope(st, s)
  /\ ~st.scopes[s].rootComponentType
  /\ Len(st.scopes[s].catches) = 0

\* Scope.enabledChildren
enabledChildren(st, s) ==
  SelectSeq(st.scopes[s].children, LAMBDA c : st.scopes[c].enabled)

(***************************************************************************)
(* Scope: traversal of the tree.                                           *)
(***************************************************************************)
\* Scope.scope: the scope itself if it owns a boundary, else its owning scope
scopeOf(st, s) == IF st.scopes[s].hasScope THEN s ELSE st.scopes[s].owningScope

RECURSIVE allScopes(_, _, _), allScopesOfEach(_, _, _)
\* Scope.allScopes(includeDisabled): the children, then the allScopes of
\* each child in turn
allScopes(st, s, includeDisabled) ==
  LET list == IF includeDisabled THEN st.scopes[s].children ELSE enabledChildren(st, s)
  IN list \o allScopesOfEach(st, list, includeDisabled)

allScopesOfEach(st, list, includeDisabled) ==
  IF list = << >> THEN << >>
  ELSE allScopes(st, Head(list), includeDisabled)
         \o allScopesOfEach(st, Tail(list), includeDisabled)

RECURSIVE HoistOwnedShallow(_, _, _)
\* HoistOwned with the recursion forgotten: a pass-through scope is spliced out
\* for the scopes it owns as they are, pass-through ones among them.
HoistOwnedShallow(st, todo, list) ==
  IF todo = << >> THEN list
  ELSE LET scope == Head(todo)
       IN IF passThroughScope(st, scope)
          THEN HoistOwnedShallow(st, Tail(todo),
                 splice(list, indexOf(list, scope), 1,
                        SelectSeq(allScopes(st, scope, FALSE),
                                  LAMBDA c : st.scopes[c].owningScope = scope)))
          ELSE HoistOwnedShallow(st, Tail(todo), list)

RECURSIVE getOwnedScopes(_, _, _), HoistOwned(_, _, _)
\* Scope.getOwnedScopes(includeDisabled)
getOwnedScopes(st, s, includeDisabled) ==
  LET list == SelectSeq(allScopes(st, s, includeDisabled),
                          LAMBDA c : st.scopes[c].owningScope = s)
  IN HoistOwned(st, list, list)

\* The loop of getOwnedScopes over scopes.slice() (todo): a pass-through
\* scope is spliced out of scopes for its own owned scopes.
HoistOwned(st, todo, list) ==
  IF todo = << >> THEN list
  ELSE LET scope == Head(todo)
       IN IF passThroughScope(st, scope)
          THEN HoistOwned(st, Tail(todo),
                 splice(list, indexOf(list, scope), 1, getOwnedScopes(st, scope, FALSE)))
          ELSE HoistOwned(st, Tail(todo), list)

RECURSIVE HoistRound(_, _, _), HoistWhile(_, _)
\* One round of the for loop of hoistedChildren over scopes.slice() (todo)
HoistRound(st, todo, list) ==
  IF todo = << >> THEN list
  ELSE LET scope == Head(todo)
       IN IF passThroughScope(st, scope)
          THEN HoistRound(st, Tail(todo),
                 splice(list, indexOf(list, scope), 1, enabledChildren(st, scope)))
          ELSE HoistRound(st, Tail(todo), list)

\* The while loop of hoistedChildren
HoistWhile(st, list) ==
  IF \E k \in DOMAIN list : passThroughScope(st, list[k])
  THEN HoistWhile(st, HoistRound(st, list, list))
  ELSE list

\* Scope.hoistedChildren
hoistedChildren(st, s) == HoistWhile(st, enabledChildren(st, s))

\* Scope.allViewports(includeDisabled), as the scopes of the viewports
allViewports(st, s, includeDisabled) ==
  SelectSeq(allScopes(st, s, includeDisabled), LAMBDA c : isViewport(st, c))

\* Scope.getOwnedViewports(includeDisabled)
getOwnedViewports(st, s, includeDisabled) ==
  SelectSeq(allViewports(st, s, includeDisabled), LAMBDA c : st.scopes[c].owningScope = s)

(***************************************************************************)
(* Record<string, Viewport | null>: a JavaScript object used as a map.     *)
(* Its keys are kept in insertion order, the order for (name in ...)       *)
(* follows; an entry is << name, viewport >>.                              *)
(***************************************************************************)
HasKey(map, name) == \E k \in DOMAIN map : map[k][1] = name

\* map[name], Undefined when there is no such key
Get(map, name) ==
  IF HasKey(map, name)
  THEN map[CHOOSE k \in DOMAIN map : map[k][1] = name][2]
  ELSE Undefined

\* map[name] = value
Set(map, name, value) ==
  IF HasKey(map, name)
  THEN [ k \in DOMAIN map |-> IF map[k][1] = name THEN << name, value >> ELSE map[k] ]
  ELSE Append(map, << name, value >>)

RECURSIVE ReduceViewports(_, _, _)
ReduceViewports(st, list, viewports) ==
  IF list = << >> THEN [ map |-> viewports, threw |-> FALSE ]
  ELSE IF ~isViewport(st, Head(list)) THEN [ map |-> viewports, threw |-> TRUE ]
  ELSE ReduceViewports(st, Tail(list),
                       Set(viewports, st.scopes[Head(list)].name, Head(list)))

\* Scope.getEnabledViewports(viewportScopes): the scopes that are no viewport
\* scope, keyed by viewport.name; a later one of the same name replaces an
\* earlier one.  A scope that is neither has viewport null, and reading its
\* name throws.
getEnabledViewports(st, viewportScopes) ==
  ReduceViewports(st, SelectSeq(viewportScopes, LAMBDA c : ~isViewportScope(st, c)), << >>)

(***************************************************************************)
(* ViewportScope: the backing collection.                                  *)
(***************************************************************************)
\* ViewportScope.siblings
siblings(st, s) ==
  LET parent == st.scopes[s].parent
  IN IF parent = Null THEN << s >>
     ELSE SelectSeq(enabledChildren(st, parent),
            LAMBDA c : isViewportScope(st, c) /\ st.scopes[c].name = st.scopes[s].name)

RECURSIVE MaxId(_, _)
\* Math.max(...source.map(w => w.id))
MaxId(ids, arr) ==
  IF arr = << >> THEN NegInfinity
  ELSE Max(ids[Head(arr)], MaxId(ids, Tail(arr)))

\* x + 1 on a JavaScript number
PlusOne(x) == IF x = NegInfinity THEN NegInfinity ELSE x + 1

\* ViewportScope.addSourceItem().  Reading the id of a null element throws.
addSourceItem(st, s) ==
  LET c   == st.scopes[s].source
      arr == st.collections[c]
      new == Len(st.itemId) + 1
  IN IF includes(arr, Null) THEN Throw(st)
     ELSE [ st EXCEPT
              !.itemId = Append(@, PlusOne(MaxId(st.itemId, arr))),
              !.collections[c] = Append(@, new) ]

\* ViewportScope.removeSourceItem()
removeSourceItem(st, s) ==
  LET c     == st.scopes[s].source
      arr   == st.collections[c]
      index == indexOf(arr, st.scopes[s].sourceItem)
  IN [ st EXCEPT
         !.scopes[s].sourceItemIndex = index,
         !.collections[c] = IF index >= 0 THEN splice(arr, index, 1, << >>) ELSE @ ]

RECURSIVE FirstAvailable(_, _, _)
FirstAvailable(st, sibs, arr) ==
  IF arr = << >> THEN Null
  ELSE IF \A k \in DOMAIN sibs : st.scopes[sibs[k]].sourceItem # Head(arr)
       THEN Head(arr)
       ELSE FirstAvailable(st, sibs, Tail(arr))

\* ViewportScope.getAvailableSourceItem()
getAvailableSourceItem(st, s) ==
  IF st.scopes[s].source = Null THEN Null
  ELSE FirstAvailable(st, siblings(st, s), st.collections[st.scopes[s].source])

\* ViewportScope.binding()
binding(st, s) ==
  LET source == IF st.scopes[s].source = Null THEN << >>
                ELSE st.collections[st.scopes[s].source]
  IN IF Len(source) > 0 /\ st.scopes[s].sourceItem = Null
     THEN [ st EXCEPT !.scopes[s].sourceItem = getAvailableSourceItem(st, s) ]
     ELSE st

\* The claim is given up, the item stays in the collection
unbindingKeepsItem(st, s) == [ st EXCEPT !.scopes[s].sourceItem = Null ]

\* ViewportScope.unbinding()
unbinding(st, s) ==
  LET c  == st.scopes[s].source
      s1 == IF st.scopes[s].sourceItem # Null /\ c # Null
            THEN [ st EXCEPT !.collections[c] = arrayRemove(@, st.scopes[s].sourceItem) ]
            ELSE st
  IN [ s1 EXCEPT !.scopes[s].sourceItem = Null ]

(***************************************************************************)
(* ViewportScope: the content lifecycle.                                   *)
(***************************************************************************)
\* ViewportScope.setNextContent(content, instruction).  content is a string
\* or a fresh instruction: the slot keeps the instruction object itself, so
\* content and nextContent hold << >> for null and << instruction >> else.
setNextContent(st, s, content) ==
  LET ins    == [ content EXCEPT !.viewportScope = s ]
      remove == isClearViewportInstruction(ins) \/ isClearAllViewportsInstruction(ins)
      add    == isAddViewportInstruction(ins) /\ st.scopes[s].source # Null
      s1     == [ st EXCEPT !.scopes[s].remove = remove,
                            !.scopes[s].add = add ]
      s2     == IF add THEN addSourceItem(s1, s) ELSE s1
      s3     == IF remove /\ s2.scopes[s].source # Null
                THEN removeSourceItem(s2, s) ELSE s2
  IN IF s2.threw THEN s2
     ELSE [ s3 EXCEPT !.scopes[s].nextContent = << ins >> ]

\* ViewportScope.loadContent()
loadContent(st, s) ==
  [ st EXCEPT
      !.scopes[s].content = IF ~st.scopes[s].remove THEN st.scopes[s].nextContent ELSE NullContent,
      !.scopes[s].nextContent = NullContent ]

\* abortContentChange that leaves the pending content in place
abortKeepsNextContent(st, s) ==
  LET c  == st.scopes[s].source
      s2 == IF ~st.scopes[s].remove THEN st
            ELSE IF c = Null THEN Throw(st)
            ELSE [ st EXCEPT !.collections[c] =
                     splice(@, st.scopes[s].sourceItemIndex, 0, << st.scopes[s].sourceItem >>) ]
      s3 == IF s2.threw \/ ~s2.scopes[s].add THEN s2
            ELSE IF c = Null THEN Throw(s2)
            ELSE [ s2 EXCEPT
                     !.collections[c] = splice(@, indexOf(@, s2.scopes[s].sourceItem), 1, << >>),
                     !.scopes[s].sourceItem = Null ]
  IN s3

\* ViewportScope.abortContentChange().  this.source!.splice on a slot without
\* backing collection throws (the promise rejects).
abortContentChange(st, s) ==
  LET c  == st.scopes[s].source
      s1 == [ st EXCEPT !.scopes[s].nextContent = NullContent ]
      s2 == IF ~s1.scopes[s].remove THEN s1
            ELSE IF c = Null THEN Throw(s1)
            ELSE [ s1 EXCEPT !.collections[c] =
                     splice(@, s1.scopes[s].sourceItemIndex, 0, << s1.scopes[s].sourceItem >>) ]
      s3 == IF s2.threw \/ ~s2.scopes[s].add THEN s2
            ELSE IF c = Null THEN Throw(s2)
            ELSE [ s2 EXCEPT
                     !.collections[c] = splice(@, indexOf(@, s2.scopes[s].sourceItem), 1, << >>),
                     !.scopes[s].sourceItem = Null ]
  IN s3

(***************************************************************************)
(* Scope: building the tree.                                               *)
(***************************************************************************)
\* new Viewport(router, name, element, container, owningScope, scope, options)
Viewport(self, name, owningScope, scope, usedBy) ==
  [ Scope(self, "viewport", scope, owningScope, name) EXCEPT !.usedBy = usedBy ]

\* Viewport.setElement(element, container, options)
setElement(st, v, element) == [ st EXCEPT !.scopes[v].element = element ]

\* The index the next constructed Scope gets, Null when the heap is full.
NewScope(st) ==
  IF \E s \in DOMAIN st.scopes : st.scopes[s].kind = "free"
  THEN CHOOSE s \in DOMAIN st.scopes :
         /\ st.scopes[s].kind = "free"
         /\ \A t \in DOMAIN st.scopes : st.scopes[t].kind = "free" => s <= t
  ELSE Null

\* The heap has no room for an object the operation constructs.
Full(st) == [ st EXCEPT !.full = TRUE ]

\* Scope.removeChild(scope)
removeChild(st, s, scope) ==
  LET index == indexOf(st.scopes[s].children, scope)
  IN IF index >= 0
     THEN [ st EXCEPT !.scopes[s].children = splice(@, index, 1, << >>),
                      !.scopes[scope].parent = Null ]
     ELSE st

\* addChild that leaves the scope in the children of its former parent
addChildShared(st, s, scope) ==
  IF includes(st.scopes[s].children, scope) THEN st
  ELSE [ st EXCEPT !.scopes[s].children = Append(@, scope),
                   !.scopes[scope].parent = s ]

\* Scope.addChild(scope)
addChild(st, s, scope) ==
  IF includes(st.scopes[s].children, scope) THEN st
  ELSE LET s1 == IF st.scopes[scope].parent # Null
                 THEN removeChild(st, st.scopes[scope].parent, scope)
                 ELSE st
       IN [ s1 EXCEPT !.scopes[s].children = Append(@, scope),
                      !.scopes[scope].parent = s ]

\* Scope.addViewportScope(name, element, options)
addViewportScopeAt(st, s, new, name, catches, source) ==
  IF new = Null THEN Full(st)
  ELSE addChild([ st EXCEPT !.scopes[new] =
                    ViewportScope(new, name, scopeOf(st, s), TRUE, FALSE, catches, source,
                                  NullContent) ],
                s, new)

addViewportScope(st, s, name, catches, source) ==
  addViewportScopeAt(st, s, NewScope(st), name, catches, source)

\* Scope.removeViewportScope(viewportScope)
removeViewportScope(st, s, viewportScope) == removeChild(st, s, viewportScope)

\* Scope.addViewport, its end: viewport.setElement(element, container, options)
addViewportElement(st, viewport, element) ==
  IF st.full \/ element = Null THEN st ELSE setElement(st, viewport, element)

\* Scope.addViewport: new Viewport(...) and addChild(viewport.connectedScope)
addViewportNew(st, s, new, name, element, scope, usedBy) ==
  IF new = Null THEN Full(st)
  ELSE addViewportElement(
         addChild([ st EXCEPT !.scopes[new] = Viewport(new, name, scopeOf(st, s), scope, usedBy) ],
                  s, new),
         new, element)

\* Scope.addViewport from if (!viewport) on; viewport is Null, Undefined or a
\* viewport
addViewportOrNew(st, s, viewport, name, element, scope, usedBy) ==
  IF viewport > Null THEN addViewportElement(st, viewport, element)
  ELSE addViewportNew(st, s, NewScope(st), name, element, scope, usedBy)

\* Scope.addViewport: the viewport of this name and element, disabled or not,
\* that takes over from the one just disabled; it is enabled.
addViewportOther(st, s, owned, name, element, scope, usedBy) ==
  IF owned = << >>
  THEN addViewportOrNew(st, s, Null, name, element, scope, usedBy)
  ELSE addViewportOrNew([ st EXCEPT !.scopes[Head(owned)].enabled = TRUE ],
                        s, Head(owned), name, element, scope, usedBy)

\* Scope.addViewport: the viewport found disabled for another element's one
addViewportDisable(st, s, name, element, scope, usedBy) ==
  addViewportOther(st, s,
    SelectSeq(getOwnedViewports(st, s, TRUE),
              LAMBDA c : st.scopes[c].name = name /\ st.scopes[c].element = element),
    name, element, scope, usedBy)

\* Scope.addViewport: each au-viewport element has its own Viewport
addViewportFound(st, s, viewport, name, element, scope, usedBy) ==
  IF viewport > Null /\ element # Null
       /\ st.scopes[viewport].element # Null /\ st.scopes[viewport].element # element
  THEN addViewportDisable([ st EXCEPT !.scopes[viewport].enabled = FALSE ],
                          s, name, element, scope, usedBy)
  ELSE addViewportOrNew(st, s, viewport, name, element, scope, usedBy)

addViewportIn(st, s, enabledViewports, name, element, scope, usedBy) ==
  IF enabledViewports.threw THEN Throw(st)
  ELSE addViewportFound(st, s, Get(enabledViewports.map, name), name, element, scope, usedBy)

\* Scope.addViewport(name, element, container, options), container null
addViewport(st, s, name, element, scope, usedBy) ==
  addViewportIn(st, s, getEnabledViewports(st, getOwnedScopes(st, s, FALSE)),
                name, element, scope, usedBy)

\* Scope.disableReplacedChildren()
disableReplacedChildren(st, s) ==
  LET replaced == enabledChildren(st, s)
  IN [ st EXCEPT
         !.scopes = [ c \in DOMAIN st.scopes |->
                        IF c = s THEN [ st.scopes[c] EXCEPT !.replacedChildren = replaced ]
                        ELSE IF includes(replaced, c) THEN [ st.scopes[c] EXCEPT !.enabled = FALSE ]
                        ELSE st.scopes[c] ] ]

\* reenableReplacedChildren that enables every child
reenableAllChildren(st, s) ==
  [ st EXCEPT
      !.scopes = [ c \in DOMAIN st.scopes |->
                     IF includes(st.scopes[s].children, c)
                     THEN [ st.scopes[c] EXCEPT !.enabled = TRUE ]
                     ELSE st.scopes[c] ] ]

\* Scope.reenableReplacedChildren()
reenableReplacedChildren(st, s) ==
  [ st EXCEPT
      !.scopes = [ c \in DOMAIN st.scopes |->
                     IF includes(st.scopes[s].replacedChildren, c)
                     THEN [ st.scopes[c] EXCEPT !.enabled = TRUE ]
                     ELSE st.scopes[c] ] ]

\* Scope.clearReplacedChildren()
clearReplacedChildren(st, s) == [ st EXCEPT !.scopes[s].replacedChildren = << >> ]

(***************************************************************************)
(* Acceptance rules of the slots.                                          *)
(***************************************************************************)
\* value.includes('*') for the strings the model uses
hasWildcard(value) == value \in { "*", "a*" }

\* ViewportScope.acceptSegment(segment)
acceptSegment(st, vs, segment) ==
  \/ segment = ""
  \/ segment = clearViewportInstruction
  \/ segment = addViewportInstruction
  \/ segment = st.scopes[vs].name
  \/ Len(st.scopes[vs].catches) = 0
  \/ includes(st.scopes[vs].catches, segment)
  \/ \E k \in DOMAIN st.scopes[vs].catches : hasWildcard(st.scopes[vs].catches[k])

\* Viewport.wantComponent(component): the viewport is configured (usedBy) to
\* want the component
wantComponent(st, v, component) == includes(st.scopes[v].usedBy, component)

\* Viewport.acceptComponent(component)
acceptComponent(st, v, component) ==
  \/ component = clearViewportInstruction
  \/ Len(st.scopes[v].usedBy) = 0
  \/ includes(st.scopes[v].usedBy, component)
  \/ \E k \in DOMAIN st.scopes[v].usedBy : hasWildcard(st.scopes[v].usedBy[k])

(***************************************************************************)
(* Scope.findViewports.  The matching pass hands on a record m:            *)
(*   st      the program state (instructions and collections change)       *)
(*   self    the scope findViewports is called on                          *)
(*   disregardViewports, ownedScopes, viewportScopes                       *)
(*   vi      viewportInstructions, the Collection still to resolve         *)
(*   found   foundViewports          rem   remainingInstructions           *)
(*   avs     availableViewportScopes avp   availableViewports              *)
(*   boundBy the pass (1..7) that bound each instruction of found          *)
(*   added   the instructions addSourceItem was called for                 *)
(*   acceptors  for each instruction that reached pass 6, the number of    *)
(*           available viewports that accepted it there                    *)
(*   materialize  whether the repeater over the backing collection renders *)
(*           the slot of an appended item before addSourceItem returns     *)
(***************************************************************************)
RECURSIVE StampScope(_, _, _)
\* for (const rem of remaining) if (rem.scope === null) rem.scope = value;
\* value is Undefined when reading it throws.
StampScope(st, remaining, value) ==
  IF remaining = << >> THEN st
  ELSE IF st.instructions[Head(remaining)].scope # Null
       THEN StampScope(st, Tail(remaining), value)
  ELSE IF value = Undefined THEN Throw(st)
  ELSE StampScope([ st EXCEPT !.instructions[Head(remaining)].scope = value ],
                  Tail(remaining), value)

\* Scope.foundViewportScope(instruction, viewportScope): the state afterwards;
\* the list it returns is instruction.nextScopeInstructions.  viewportScope
\* may be Undefined, and then viewportScope.scope throws.
foundViewportScope(st, i, viewportScope) ==
  StampScope([ st EXCEPT !.instructions[i].viewportScope = viewportScope,
                         !.instructions[i].needsViewportDescribed = FALSE ],
             st.instructions[i].nextScopeInstructions,
             IF viewportScope > Null THEN scopeOf(st, scopeOf(st, viewportScope))
             ELSE Undefined)

\* ViewportInstruction.setViewport(viewport), viewport a Viewport
setViewport(st, i, viewport) ==
  [ st EXCEPT !.instructions[i].viewport = viewport,
              !.instructions[i].viewportName = st.scopes[viewport].name,
              !.instructions[i].scope = st.scopes[viewport].owningScope ]

\* Scope.foundViewport(instruction, viewport, withoutViewports,
\* doesntNeedViewportDescribed)
foundViewport(st, i, viewport, doesntNeedViewportDescribed) ==
  StampScope([ setViewport(st, i, viewport) EXCEPT
                 !.instructions[i].needsViewportDescribed =
                   IF doesntNeedViewportDescribed THEN FALSE ELSE @ ],
             st.instructions[i].nextScopeInstructions,
             scopeOf(st, viewport))

\* foundViewports.push(instruction) and
\* remainingInstructions.push(...remaining), unless the call threw before
Bound(m, i, st, pass) ==
  IF st.threw THEN [ m EXCEPT !.st = st ]
  ELSE [ m EXCEPT !.st = st,
                  !.found = Append(@, i),
                  !.boundBy = Append(@, pass),
                  !.rem = @ \o st.instructions[i].nextScopeInstructions ]

\* An instruction bound to a viewport scope (passes 1 and 3)
BoundToViewportScope(m, i, st, viewportScope, pass) ==
  [ Bound(m, i, foundViewportScope(st, i, viewportScope), pass) EXCEPT
      !.avs = arrayRemove(@, viewportScope) ]

\* An instruction bound to a viewport (passes 2 and 4 to 7)
BoundToViewport(m, i, viewport, doesntNeedViewportDescribed, pass) ==
  [ Bound(m, i, foundViewport(m.st, i, viewport, doesntNeedViewportDescribed), pass) EXCEPT
      !.avp = Set(@, m.st.scopes[viewport].name, Null) ]

\* Pass 1: the viewport scope is already known
KnownViewportScope(m, i) ==
  IF /\ m.st.instructions[i].viewportScope # Null
     /\ ~isAddViewportInstruction(m.st.instructions[i])
  THEN BoundToViewportScope(m, i, m.st, m.st.instructions[i].viewportScope, 1)
  ELSE m

\* KnownViewport asking the viewport first: an instruction is bound to the
\* viewport it carries only if that viewport accepts the component.
KnownViewportAccepting(m, i) ==
  IF /\ m.st.instructions[i].viewport # Null
     /\ acceptComponent(m.st, m.st.instructions[i].viewport,
                        m.st.instructions[i].componentName)
  THEN BoundToViewport(m, i, m.st.instructions[i].viewport, FALSE, 2)
  ELSE m

\* Pass 2: the viewport is already known
KnownViewport(m, i) ==
  IF m.st.instructions[i].viewport # Null
  THEN BoundToViewport(m, i, m.st.instructions[i].viewport, FALSE, 2)
  ELSE m

\* availableViewportScopes.find(available => available.name === name)
FindAvailable(st, avs, name) ==
  IF \E k \in DOMAIN avs : st.scopes[avs[k]].name = name
  THEN Head(SelectSeq(avs, LAMBDA a : st.scopes[a].name = name))
  ELSE Undefined

\* this.getOwnedScopes().filter(isViewportScope).map(viewportScope)
\*   .find(viewportScope => viewportScope.sourceItem === item)
FindBySourceItem(st, s, item) ==
  IF \E c \in Range(getOwnedScopes(st, s, FALSE)) :
       isViewportScope(st, c) /\ st.scopes[c].sourceItem = item
  THEN Head(SelectSeq(getOwnedScopes(st, s, FALSE),
              LAMBDA c : isViewportScope(st, c) /\ st.scopes[c].sourceItem = item))
  ELSE Undefined

\* The slot the repeater renders for an appended item: a sibling of the same
\* name and options is added to the parent and bound (it claims an item)
MaterializeAt(st, viewportScope, new) ==
  IF new = Null THEN Full(st)
  ELSE binding(addViewportScopeAt(st, st.scopes[viewportScope].parent, new,
                                  st.scopes[viewportScope].name,
                                  st.scopes[viewportScope].catches,
                                  st.scopes[viewportScope].source),
               new)

Materialize(m, st, viewportScope) ==
  IF m.materialize /\ ~st.threw THEN MaterializeAt(st, viewportScope, NewScope(st)) ELSE st

\* Pass 3, after const item = viewportScope.addSourceItem(): the call is void,
\* so item is Undefined
AddedSourceItem(m, i, st) ==
  IF st.threw THEN [ m EXCEPT !.st = st ]
  ELSE BoundToViewportScope(m, i, st, FindBySourceItem(st, m.self, Undefined), 3)

\* Pass 3, the accepting viewport scope has an array as source
AcceptedBySource(m, i, viewportScope, available) ==
  IF available = Undefined \/ isAddViewportInstruction(m.st.instructions[i])
  THEN AddedSourceItem([ m EXCEPT !.added = Append(@, i) ], i,
                       Materialize(m, addSourceItem(m.st, viewportScope), viewportScope))
  ELSE BoundToViewportScope(m, i, m.st, available, 3)

\* Pass 3, the body of if (viewportScope.acceptSegment(...))
AcceptedBy(m, i, viewportScope) ==
  IF m.st.scopes[viewportScope].source # Null
  THEN AcceptedBySource(m, i, viewportScope,
         FindAvailable(m.st, m.avs, m.st.scopes[viewportScope].name))
  ELSE BoundToViewportScope(m, i, m.st, viewportScope, 3)

\* Pass 3: viewport scopes have priority; the first of viewportScopes that
\* accepts the component name
ViewportScopePriority(m, i) ==
  LET accepting == SelectSeq(m.viewportScopes,
                     LAMBDA vs : acceptSegment(m.st, vs, m.st.instructions[i].componentName))
  IN IF accepting = << >> THEN m ELSE AcceptedBy(m, i, Head(accepting))

\* The viewports of availableViewports that are not null, in
\* for (name in ...) order
Viewports(m) ==
  [ k \in DOMAIN SelectSeq(m.avp, LAMBDA e : e[2] > Null) |->
      SelectSeq(m.avp, LAMBDA e : e[2] > Null)[k][2] ]

\* Pass 4: the configured viewport is ruling
ConfiguredViewport(m, i) ==
  LET m1      == [ m EXCEPT !.st.instructions[i].needsViewportDescribed = TRUE ]
      wanting == SelectSeq(Viewports(m),
                   LAMBDA v : wantComponent(m.st, v, m.st.instructions[i].componentName))
  IN IF wanting = << >> THEN m1
     ELSE BoundToViewport(m1, i, Head(wanting), TRUE, 4)

\* this.getEnabledViewports(ownedScopes)[name] is truthy
EnabledViewportNamed(m, name) ==
  Get(getEnabledViewports(m.st, m.ownedScopes).map, name) > Null

\* Pass 5: the specified viewport
SpecifiedViewport(m, i) ==
  LET name == m.st.instructions[i].viewportName
  IN IF name = "" THEN m
     ELSE IF ~EnabledViewportNamed(m, name) THEN m
     ELSE IF /\ Get(m.avp, name) > Null
             /\ acceptComponent(m.st, Get(m.avp, name), m.st.instructions[i].componentName)
          THEN BoundToViewport(m, i, Get(m.avp, name), TRUE, 5)
          ELSE m

\* SoleAcceptor settling an ambiguity: the first accepting viewport is taken
\* when several accept.
SoleAcceptorFirst(m, i) ==
  LET remainingViewports ==
        SelectSeq(Viewports(m),
          LAMBDA v : acceptComponent(m.st, v, m.st.instructions[i].componentName))
      m1 == [ m EXCEPT !.acceptors = Append(@, << i, Len(remainingViewports) >>) ]
  IN IF Len(remainingViewports) >= 1
     THEN BoundToViewport(m1, i, remainingViewports[1], TRUE, 6)
     ELSE m1

\* Pass 6: only one accepting viewport left
SoleAcceptor(m, i) ==
  LET remainingViewports ==
        SelectSeq(Viewports(m),
          LAMBDA v : acceptComponent(m.st, v, m.st.instructions[i].componentName))
      m1 == [ m EXCEPT !.acceptors = Append(@, << i, Len(remainingViewports) >>) ]
  IN IF Len(remainingViewports) = 1
     THEN BoundToViewport(m1, i, remainingViewports[1], TRUE, 6)
     ELSE m1

\* Pass 7, from if (viewport?.acceptComponent(...)) on
ForcedViewport(m, i, viewport) ==
  IF viewport > Null /\ acceptComponent(m.st, viewport, m.st.instructions[i].componentName)
  THEN BoundToViewport(m, i, viewport, FALSE, 7)
  ELSE m

\* Pass 7: ignoring viewports, they are matched anyway
DisregardedViewport(m, i) ==
  LET name == m.st.instructions[i].viewportName
  IN IF m.st.instructions[i].viewport # Null
     THEN ForcedViewport(m, i, m.st.instructions[i].viewport)
     ELSE IF name = "" THEN m
     ELSE IF ~EnabledViewportNamed(m, name) THEN m
     ELSE ForcedViewport(m, i, Get(m.avp, name))

\* The body of the while loop of pass p for instruction i
Pass(p, m, i) ==
  CASE p = 1 -> KnownViewportScope(m, i)
    [] p = 2 -> KnownViewport(m, i)
    [] p = 3 -> ViewportScopePriority(m, i)
    [] p = 4 -> ConfiguredViewport(m, i)
    [] p = 5 -> SpecifiedViewport(m, i)
    [] p = 6 -> SoleAcceptor(m, i)
    [] p = 7 -> DisregardedViewport(m, i)

RECURSIVE While(_, _, _), Iterate(_, _, _, _)
\* while ((instruction = viewportInstructions.next()) !== null) of pass p,
\* from the element after index k - 1 on (Collection.next)
While(p, m, k) ==
  IF m.st.threw \/ k > Len(m.vi) THEN m
  ELSE Iterate(p, m, Pass(p, m, m.vi[k]), k)

\* viewportInstructions.removeCurrent() when the instruction was bound
\* (Collection.removeCurrent), then the next turn of the loop
Iterate(p, m, after, k) ==
  IF Len(after.found) > Len(m.found)
  THEN While(p, [ after EXCEPT !.vi = splice(@, k - 1, 1, << >>) ], k)
  ELSE While(p, after, k + 1)

\* The passes of findViewports in their order; passes 2 and 5 are skipped
\* when disregarding viewports, pass 7 is run only then
Passes(m) ==
  IF m.disregardViewports
  THEN While(7, While(6, While(4, While(3, While(1, m, 1), 1), 1), 1), 1)
  ELSE While(6, While(5, While(4, While(3, While(2, While(1, m, 1), 1), 1), 1), 1), 1)

RECURSIVE Occupy(_, _, _, _)
\* for (const instruction of alreadyFound.filter(found => found.scope === this))
\*   availableViewports[instruction.viewportName] = null
Occupy(st, s, alreadyFound, avp) ==
  IF alreadyFound = << >> THEN avp
  ELSE Occupy(st, s, Tail(alreadyFound),
              IF st.instructions[Head(alreadyFound)].scope = s
              THEN Set(avp, st.instructions[Head(alreadyFound)].viewportName, Null)
              ELSE avp)

\* Scope.findViewports, lines 167 to 180: the pools
Pools(st, s, list, alreadyFound, disregardViewports, materialize, ownedScopes, enabledViewports) ==
  LET viewportScopes == SelectSeq(ownedScopes, LAMBDA c : isViewportScope(st, c))
  IN [ st |-> IF enabledViewports.threw THEN Throw(st) ELSE st,
       self |-> s,
       disregardViewports |-> disregardViewports,
       ownedScopes |-> ownedScopes,
       viewportScopes |-> viewportScopes,
       vi |-> list,
       found |-> << >>,
       boundBy |-> << >>,
       added |-> << >>,
       acceptors |-> << >>,
       materialize |-> materialize,
       rem |-> << >>,
       avs |-> SelectSeq(viewportScopes,
                 LAMBDA vs : \A k \in DOMAIN alreadyFound :
                               st.instructions[alreadyFound[k]].viewportScope # vs),
       avp |-> Occupy(st, s, alreadyFound, enabledViewports.map) ]

\* Scope.findViewports, lines 319 to 323: the state afterwards (st, with
\* st.threw), foundViewports and remainingInstructions, and what the passes
\* noted
Result(m) ==
  [ st |-> m.st, foundViewports |-> m.found,
    remainingInstructions |-> m.vi \o m.rem,
    boundBy |-> m.boundBy, added |-> m.added, acceptors |-> m.acceptors ]

findViewportsOwned(st, s, list, alreadyFound, disregardViewports, materialize, ownedScopes) ==
  Result(Passes(Pools(st, s, list, alreadyFound, disregardViewports, materialize,
                      ownedScopes, getEnabledViewports(st, ownedScopes))))

\* Scope.findViewports(instructions, alreadyFound, disregardViewports)
findViewports(st, s, list, alreadyFound, disregardViewports, materialize) ==
  findViewportsOwned(st, s, list, alreadyFound, disregardViewports, materialize,
                     getOwnedScopes(st, s, FALSE))

(***************************************************************************)
(* Specification SpecSlot: sibling ViewportScopes named "list" under one   *)
(* parent.  They share one backing collection (options.source), or none of *)
(* them has one.  The lifecycle hooks and the content transitions are      *)
(* called on them in any order.                                            *)
(***************************************************************************)
SlotParent == 1
Slots == 2 .. (MaxSlots + 1)

\* The strings given to setNextContent, parsed to fresh instructions.
SlotContents ==
  { ViewportInstruction(addViewportInstruction, ""),
    ViewportInstruction(clearViewportInstruction, ""),
    ViewportInstruction(clearViewportInstruction, "list"),
    ViewportInstruction("a", "") }

\* What an operation leaves for the properties to read: the operation, its
\* slot and argument, whether it threw, and the state it started from.
Record(op, s, content, st) ==
  [ op |-> op, scope |-> s, content |-> content, threw |-> st.threw,
    before |-> [ collections |-> collections, scopes |-> scopes ] ]

NoOperation ==
  [ op |-> "none", scope |-> Null, content |-> NullContent, threw |-> FALSE,
    before |-> [ collections |-> << >>, scopes |-> << >> ] ]

Apply(st, rec) ==
  /\ scopes' = st.scopes
  /\ collections' = st.collections
  /\ itemId' = st.itemId
  /\ instructions' = st.instructions
  /\ prev' = last
  /\ last' = rec
  /\ ops' = ops + 1
  /\ promises' = promises
  /\ routes' = routes

InitSlot ==
  /\ \E n \in 0 .. MaxInitItems, backed \in BOOLEAN :
       /\ collections = << [ k \in 1 .. n |-> k ] >>
       /\ itemId = [ k \in 1 .. n |-> k ]
       /\ backed \/ n = 0
       /\ scopes =
            [ s \in 1 .. (MaxSlots + 1) |->
                IF s = SlotParent
                THEN [ ViewportScope(s, "root", Null, TRUE, TRUE, << >>, Null, NullContent)
                         EXCEPT !.children = [ k \in 1 .. MaxSlots |-> k + 1 ] ]
                ELSE [ ViewportScope(s, "list", SlotParent, TRUE, FALSE, << >>,
                                     IF backed THEN 1 ELSE Null, NullContent)
                         EXCEPT !.parent = SlotParent ] ]
  /\ instructions = << >>
  /\ last = NoOperation
  /\ prev = NoOperation
  /\ ops = 0
  /\ promises = << >>
  /\ routes = << >>

Binding(s) ==
  /\ ops < MaxSlotOps
  /\ LET st == binding(State, s)
     IN Apply(st, Record("binding", s, NullContent, st))

Unbinding(s) ==
  /\ ops < MaxSlotOps
  /\ LET st == unbinding(State, s)
     IN Apply(st, Record("unbinding", s, NullContent, st))

SetNextContent(s, content) ==
  /\ ops < MaxSlotOps
  /\ LET st == setNextContent(State, s, content)
     IN Apply(st, Record("setNextContent", s, << content >>, st))

LoadContent(s) ==
  /\ ops < MaxSlotOps
  /\ LET st == loadContent(State, s)
     IN Apply(st, Record("loadContent", s, NullContent, st))

AbortContentChange(s) ==
  /\ ops < MaxSlotOps
  /\ LET st == abortContentChange(State, s)
     IN Apply(st, Record("abortContentChange", s, NullContent, st))

\* ViewportScope.enabled setter, as Scope.disableReplacedChildren and
\* reenableReplacedChildren of the parent use it
SetEnabled(s) ==
  /\ ops < MaxSlotOps
  /\ LET st == [ State EXCEPT !.scopes[s].enabled = ~@ ]
     IN Apply(st, Record("enabled", s, NullContent, st))

NextSlot ==
  \/ \E s \in Slots : Binding(s)
  \/ \E s \in Slots : Unbinding(s)
  \/ \E s \in Slots, content \in SlotContents : SetNextContent(s, content)
  \/ \E s \in Slots : LoadContent(s)
  \/ \E s \in Slots : AbortContentChange(s)
  \/ \E s \in Slots : SetEnabled(s)

SpecSlot == InitSlot /\ [][NextSlot]_vars

(***************************************************************************)
(* Properties of the slot lifecycle (under SpecSlot).                      *)
(***************************************************************************)
\* The last two operations were setNextContent(content) and then
\* abortContentChange, on the same slot, and setNextContent returned.
AbortedRightAfter(isKind(_)) ==
  /\ last.op = "abortContentChange"
  /\ prev.op = "setNextContent"
  /\ prev.scope = last.scope
  /\ ~prev.threw
  /\ isKind(prev.content[1])

isRemoveInstruction(ins) ==
  isClearViewportInstruction(ins) \/ isClearAllViewportsInstruction(ins)

\* C1: on a collection-backed slot, in whatever state it is (a claimed
\* sourceItem included), setNextContent with an add instruction followed
\* immediately by abortContentChange leaves the backing collection as it was
\* before setNextContent: same length, same order, same item objects.
C1_AddThenAbortRestoresCollection ==
  ( /\ AbortedRightAfter(isAddViewportInstruction)
    /\ scopes[last.scope].source # Null )
  => collections = prev.before.collections

\* C2: on a collection-backed slot, setNextContent with a clear or clear-all
\* instruction followed by abortContentChange restores the backing
\* collection exactly, whether or not the slot's sourceItem was in the
\* collection when setNextContent ran.
C2_ClearThenAbortRestoresCollection ==
  ( /\ AbortedRightAfter(isRemoveInstruction)
    /\ scopes[last.scope].source # Null )
  => collections = prev.before.collections

\* The items of a list other than x, in their order
Without(arr, x) == SelectSeq(arr, LAMBDA y : y # x)

\* The last operation, setNextContent, was an add request on a slot with a
\* backing collection
AddRequested ==
  /\ last.op = "setNextContent"
  /\ isAddViewportInstruction(last.content[1])
  /\ last.before.scopes[last.scope].source # Null

\* The last operation, setNextContent, was a clear or clear-all request on a
\* slot with a backing collection that held a claimed item
RemoveRequested ==
  /\ last.op = "setNextContent"
  /\ isRemoveInstruction(last.content[1])
  /\ last.before.scopes[last.scope].source # Null
  /\ last.before.scopes[last.scope].sourceItem # Null

\* The collection of the slot of the last operation, before it and after it
SourceBefore == last.before.collections[last.before.scopes[last.scope].source]
SourceAfter == collections[last.before.scopes[last.scope].source]

\* C17: setNextContent changes the collection before it returns: an add
\* request on a slot with a collection appends exactly one item; a clear or
\* clear-all request on a slot with a collection and a claimed item removes
\* that item and keeps the order of the others; any other instruction, and
\* any instruction on a slot without a collection, changes no collection.
C17_SetNextContentChangesCollectionAtOnce ==
  last.op = "setNextContent" =>
    /\ AddRequested =>
         /\ Len(SourceAfter) = Len(SourceBefore) + 1
         /\ SubSeq(SourceAfter, 1, Len(SourceBefore)) = SourceBefore
    /\ RemoveRequested =>
         /\ ~includes(SourceAfter, last.before.scopes[last.scope].sourceItem)
         /\ SourceAfter = Without(SourceBefore, last.before.scopes[last.scope].sourceItem)
    /\ ( \/ last.before.scopes[last.scope].source = Null
         \/ ( /\ ~isAddViewportInstruction(last.content[1])
              /\ ~isRemoveInstruction(last.content[1]) ) ) =>
         collections = last.before.collections

\* Before the last operation a clear or clear-all request was pending on
\* its slot
RemovePending ==
  /\ last.before.scopes[last.scope].nextContent # NullContent
  /\ isRemoveInstruction(last.before.scopes[last.scope].nextContent[1])

\* C18: loadContent sets content to the pending nextContent, or to null when
\* the pending request was a clear or clear-all, sets nextContent to null
\* and leaves the collection, sourceItem and sourceItemIndex as they were.
C18_LoadContentCommits ==
  last.op = "loadContent" =>
    /\ scopes[last.scope].content =
         IF RemovePending THEN NullContent
         ELSE last.before.scopes[last.scope].nextContent
    /\ scopes[last.scope].nextContent = NullContent
    /\ collections = last.before.collections
    /\ scopes[last.scope].sourceItem = last.before.scopes[last.scope].sourceItem
    /\ scopes[last.scope].sourceItemIndex = last.before.scopes[last.scope].sourceItemIndex

\* The ViewportScopes with the name of slot s below its parent, s among
\* them, enabled or not
SameNamed(all, s) ==
  { c \in Range(all[all[s].parent].children) :
      all[c].kind = all[s].kind /\ all[c].name = all[s].name }

RECURSIVE FirstFree(_, _, _)
\* The first item of a list that none of the scopes holds as its sourceItem,
\* or null
FirstFree(all, held, arr) ==
  IF arr = << >> THEN Null
  ELSE IF \A c \in held : all[c].sourceItem # Head(arr) THEN Head(arr)
  ELSE FirstFree(all, held, Tail(arr))

\* The last operation, binding, found a collection with items and no claim
\* of the slot
BindingClaims ==
  /\ last.op = "binding"
  /\ last.before.scopes[last.scope].source # Null
  /\ Len(SourceBefore) > 0
  /\ last.before.scopes[last.scope].sourceItem = Null

\* C19: binding() of a slot without claim whose collection has items sets
\* sourceItem to the first item of the collection that no sibling of the
\* same name holds, or to null when all are held; otherwise it leaves
\* sourceItem as it was; it never changes the collection.
C19_BindingClaimsFirstFree ==
  last.op = "binding" =>
    /\ collections = last.before.collections
    /\ scopes[last.scope].sourceItem =
         IF BindingClaims
         THEN FirstFree(last.before.scopes, SameNamed(last.before.scopes, last.scope),
                        SourceBefore)
         ELSE last.before.scopes[last.scope].sourceItem

\* C20: whatever the slots did, and whichever of them were disabled and
\* enabled again, no two sibling slots of one name and one collection hold
\* the same item as their sourceItem.
C20_SiblingsHoldDistinctItems ==
  \A a, b \in Slots :
    ( /\ a # b
      /\ scopes[a].name = scopes[b].name
      /\ scopes[a].source # Null
      /\ scopes[a].source = scopes[b].source
      /\ scopes[a].sourceItem # Null )
    => scopes[a].sourceItem # scopes[b].sourceItem

\* The last operation, unbinding, found a claim of the slot on an item of
\* its collection
Released ==
  /\ last.op = "unbinding"
  /\ last.before.scopes[last.scope].source # Null
  /\ last.before.scopes[last.scope].sourceItem # Null

\* C21: after unbinding() the sourceItem of the slot is null, the item it
\* had claimed is no longer in the collection, the other items are there in
\* the order they had, and the claims of the sibling slots are unchanged.
C21_UnbindingReleasesClaim ==
  last.op = "unbinding" =>
    /\ scopes[last.scope].sourceItem = Null
    /\ Released =>
         /\ ~includes(SourceAfter, last.before.scopes[last.scope].sourceItem)
         /\ SourceAfter = Without(SourceBefore, last.before.scopes[last.scope].sourceItem)
    /\ \A s \in Slots \ { last.scope } :
         scopes[s].sourceItem = last.before.scopes[s].sourceItem

\* A slot released one of two items or more while a sibling held a claim
C21_Witness ==
  /\ Released
  /\ includes(SourceBefore, last.before.scopes[last.scope].sourceItem)
  /\ Len(SourceBefore) >= 2
  /\ \E s \in Slots \ { last.scope } : scopes[s].sourceItem # Null

\* The slot the last operation was called on had a content transition open:
\* nextContent is set
Pending(heap, s) == heap[s].nextContent # NullContent

ContentOperation == last.op \in { "setNextContent", "loadContent", "abortContentChange" }

\* C27: the slot goes from idle to pending and then to active or back:
\* nextContent is null at first, becomes non-null only by a setNextContent
\* call on the slot, stays so only until the next loadContent or
\* abortContentChange on it, which leave it null; content is changed by
\* loadContent only, so abortContentChange leaves content as it was before
\* the aborted setNextContent.
C27_PendingOnlyBetweenSetAndCommit ==
  /\ last.op = "none" => \A s \in Slots : ~Pending(scopes, s)
  /\ last.op # "none" =>
       /\ \A s \in Slots :
            /\ Pending(scopes, s) /\ scopes[s].nextContent # last.before.scopes[s].nextContent
                 => last.op = "setNextContent" /\ last.scope = s
            /\ scopes[s].content # last.before.scopes[s].content
                 => last.op = "loadContent" /\ last.scope = s
       /\ last.op \in { "loadContent", "abortContentChange" } => ~Pending(scopes, last.scope)
       /\ last.op = "abortContentChange" /\ prev.op = "setNextContent" /\ prev.scope = last.scope
            => scopes[last.scope].content = prev.before.scopes[last.scope].content

\* A slot with content, loaded earlier, whose next content was set and then
\* aborted
C27_Witness ==
  /\ last.op = "abortContentChange"
  /\ prev.op = "setNextContent" /\ prev.scope = last.scope /\ ~prev.threw
  /\ Pending(last.before.scopes, last.scope)
  /\ scopes[last.scope].content # NullContent
  /\ scopes[last.scope].content # last.before.scopes[last.scope].nextContent

\* The item at the end of the collection after the last operation
NewItem == SourceAfter[Len(SourceAfter)]

\* One item is appended at the end and nothing else is changed: the items
\* there were, the other slots and the claim of this slot are as before
AppendedOne ==
  /\ Len(SourceAfter) = Len(SourceBefore) + 1
  /\ SubSeq(SourceAfter, 1, Len(SourceBefore)) = SourceBefore
  /\ \A s \in Slots \ { last.scope } : scopes[s] = last.before.scopes[s]
  /\ scopes[last.scope].sourceItem = last.before.scopes[last.scope].sourceItem

\* The id of the new item is one greater than the greatest id there was, and
\* is the id of no item there was
FreshId ==
  /\ \A k \in DOMAIN SourceBefore :
       /\ itemId[NewItem] # itemId[SourceBefore[k]]
       /\ itemId[NewItem] > itemId[SourceBefore[k]]
  /\ \E k \in DOMAIN SourceBefore : itemId[NewItem] = itemId[SourceBefore[k]] + 1

\* C30: addSourceItem (called by setNextContent for an add request) appends
\* exactly one item at the end of the backing collection and changes nothing
\* else; the id of the new item is one greater than the greatest id in the
\* collection before the call and so differs from the id of every item there
\* was, for every collection, an empty one included (where no id was there to
\* compare with).
C30_AddSourceItemAppendsFreshId ==
  AddRequested =>
    /\ AppendedOne
    /\ SourceBefore # << >> => FreshId

\* Every item of the collection is an object with a finite number as id
FiniteIds(arr) == \A k \in DOMAIN arr : arr[k] # Null /\ itemId[arr[k]] # NegInfinity

\* What holds of C30: the same for a collection that is not empty and holds
\* objects with finite ids only, and the append for an empty one
C30_FreshIdAmongFiniteIds ==
  AddRequested /\ FiniteIds(SourceBefore) =>
    /\ AppendedOne
    /\ SourceBefore # << >> => FreshId

\* abortContentChange was called with no change open on the slot: right
\* after another abortContentChange or after loadContent on the same slot
AbortedWithNothingOpen ==
  /\ last.op = "abortContentChange"
  /\ prev.op \in { "abortContentChange", "loadContent" }
  /\ prev.scope = last.scope

\* C31: abortContentChange undoes only what the most recent setNextContent
\* did that was neither committed nor aborted: called a second time in a
\* row, or after loadContent has committed the change, it leaves the backing
\* collections and the claim of the slot as they were.
C31_AbortUndoesOnlyOpenChange ==
  AbortedWithNothingOpen =>
    /\ collections = last.before.collections
    /\ scopes[last.scope].sourceItem = last.before.scopes[last.scope].sourceItem

\* What holds of C31: the same when the last setNextContent on the slot left
\* neither the remove nor the add flag set
C31_AbortWithoutFlagsChangesNothing ==
  /\ AbortedWithNothingOpen
  /\ ~last.before.scopes[last.scope].remove
  /\ ~last.before.scopes[last.scope].add
  => /\ collections = last.before.collections
     /\ scopes[last.scope].sourceItem = last.before.scopes[last.scope].sourceItem

\* C32: on a slot without a backing collection (source is null),
\* setNextContent with a clear or clear-all instruction followed by
\* abortContentChange completes without error, leaves the content of the
\* slot as it was and its nextContent null.
C32_ClearThenAbortWithoutCollection ==
  ( /\ AbortedRightAfter(isRemoveInstruction)
    /\ scopes[last.scope].source = Null )
  => /\ ~last.threw
     /\ scopes[last.scope].content = prev.before.scopes[last.scope].content
     /\ scopes[last.scope].nextContent = NullContent

\* What holds of C32: the content is as it was and nextContent is null,
\* although the call throws
C32_ContentKeptWithoutCollection ==
  ( /\ AbortedRightAfter(isRemoveInstruction)
    /\ scopes[last.scope].source = Null )
  => /\ last.threw
     /\ scopes[last.scope].content = prev.before.scopes[last.scope].content
     /\ scopes[last.scope].nextContent = NullContent

(***************************************************************************)
(* Specification SpecSlotDeep: the operations of SpecSlot on the first     *)
(* slot only, in longer sequences.                                         *)
(***************************************************************************)
DeepSlot == 2

DeepBinding ==
  /\ ops < MaxDeepOps
  /\ Apply(binding(State, DeepSlot), Record("binding", DeepSlot, NullContent, State))

DeepUnbinding ==
  /\ ops < MaxDeepOps
  /\ Apply(unbinding(State, DeepSlot), Record("unbinding", DeepSlot, NullContent, State))

DeepSetNextContent(content) ==
  /\ ops < MaxDeepOps
  /\ Apply(setNextContent(State, DeepSlot, content),
           Record("setNextContent", DeepSlot, << content >>,
                  setNextContent(State, DeepSlot, content)))

DeepLoadContent ==
  /\ ops < MaxDeepOps
  /\ Apply(loadContent(State, DeepSlot), Record("loadContent", DeepSlot, NullContent, State))

DeepAbortContentChange ==
  /\ ops < MaxDeepOps
  /\ Apply(abortContentChange(State, DeepSlot),
           Record("abortContentChange", DeepSlot, NullContent,
                  abortContentChange(State, DeepSlot)))

NextSlotDeep ==
  \/ DeepBinding
  \/ DeepUnbinding
  \/ \E content \in SlotContents : DeepSetNextContent(content)
  \/ DeepLoadContent
  \/ DeepAbortContentChange

SpecSlotDeep == InitSlot /\ [][NextSlotDeep]_vars

(***************************************************************************)
(* Specification SpecTree: a tree grown below the router's root scope (a   *)
(* ViewportScope with a root component) by addViewport and                 *)
(* addViewportScope calls on any scope of it, with scopes disabled and     *)
(* enabled again.                                                          *)
(***************************************************************************)
RootScope == 1

\* The scopes constructed so far
Existing(st) == { s \in DOMAIN st.scopes : st.scopes[s].kind # "free" }

ApplyTree(st) ==
  /\ scopes' = st.scopes
  /\ UNCHANGED <<collections, itemId, instructions, last, prev, ops, promises, routes>>

InitTree ==
  /\ scopes = [ s \in 1 .. (MaxTreeScopes + 1) |->
                  IF s = RootScope
                  THEN ViewportScope(s, "rootScope", Null, TRUE, TRUE, << >>, Null, NullContent)
                  ELSE FreeScope ]
  /\ collections = << >>
  /\ itemId = << >>
  /\ instructions = << >>
  /\ last = NoOperation
  /\ prev = NoOperation
  /\ ops = 0
  /\ promises = << >>
  /\ routes = << >>

AddViewport(s, name, scope) ==
  /\ s \in Existing(State)
  /\ LET st == addViewport(State, s, name, Null, scope, << >>)
     IN ~st.full /\ ApplyTree(st)

AddViewportScope(s, catches) ==
  /\ s \in Existing(State)
  /\ LET st == addViewportScope(State, s, "list", catches, Null)
     IN ~st.full /\ ApplyTree(st)

\* The enabled setter of a viewport or viewport scope below the root
ToggleEnabled(s) ==
  /\ s \in Existing(State) \ { RootScope }
  /\ ApplyTree([ State EXCEPT !.scopes[s].enabled = ~@ ])

NextTree ==
  \/ \E s \in DOMAIN scopes, scope \in BOOLEAN : AddViewport(s, "main", scope)
  \/ \E s \in DOMAIN scopes, catches \in { << >>, << "a" >> } : AddViewportScope(s, catches)
  \/ \E s \in DOMAIN scopes : ToggleEnabled(s)

SpecTree == InitTree /\ [][NextTree]_vars

(***************************************************************************)
(* Properties of the flattened pools (under SpecTree).                     *)
(***************************************************************************)
NoPassThrough(st, list) == \A k \in DOMAIN list : ~passThroughScope(st, list[k])

RECURSIVE FlatBy(_, _, _)
\* list with every pass-through scope replaced, in place and recursively, by
\* its enabled children (byChildren) or by the scopes it owns
FlatBy(st, list, byChildren) ==
  IF list = << >> THEN << >>
  ELSE LET c == Head(list)
       IN (IF passThroughScope(st, c)
           THEN FlatBy(st,
                  IF byChildren THEN enabledChildren(st, c)
                  ELSE SelectSeq(allScopes(st, c, FALSE), LAMBDA d : st.scopes[d].owningScope = c),
                  byChildren)
           ELSE << c >>)
          \o FlatBy(st, Tail(list), byChildren)

OwnedUnflattened(st, s, includeDisabled) ==
  SelectSeq(allScopes(st, s, includeDisabled), LAMBDA c : st.scopes[c].owningScope = s)

\* C10 as stated: getOwnedScopes and hoistedChildren return no pass-through
\* scope, each pass-through scope being replaced in place by its own
\* recursively flattened enabled children.
C10_FlattenedByChildren ==
  \A s \in Existing(State) :
    /\ NoPassThrough(State, getOwnedScopes(State, s, FALSE))
    /\ NoPassThrough(State, hoistedChildren(State, s))
    /\ hoistedChildren(State, s) = FlatBy(State, enabledChildren(State, s), TRUE)
    /\ getOwnedScopes(State, s, FALSE)
         = FlatBy(State, OwnedUnflattened(State, s, FALSE), TRUE)

\* C10 (amended): for every tree and every scope of it, the lists returned by
\* getOwnedScopes (disabled scopes included or not) and by hoistedChildren
\* hold no pass-through scope; hoistedChildren replaces each pass-through
\* scope, in place and recursively, by its enabled children, getOwnedScopes
\* by the enabled scopes it owns.
C10_NoPassThroughInPools ==
  \A s \in Existing(State) :
    /\ NoPassThrough(State, getOwnedScopes(State, s, FALSE))
    /\ NoPassThrough(State, getOwnedScopes(State, s, TRUE))
    /\ NoPassThrough(State, hoistedChildren(State, s))
    /\ hoistedChildren(State, s) = FlatBy(State, enabledChildren(State, s), TRUE)
    /\ getOwnedScopes(State, s, FALSE)
         = FlatBy(State, OwnedUnflattened(State, s, FALSE), FALSE)
    /\ getOwnedScopes(State, s, TRUE)
         = FlatBy(State, OwnedUnflattened(State, s, TRUE), FALSE)

\* A chain of two pass-through scopes below the root with a viewport at its
\* end, which the root's pool holds in their place.
C10_Witness ==
  \E p, q, v \in Existing(State) :
    /\ passThroughScope(State, p) /\ passThroughScope(State, q)
    /\ scopes[p].parent = RootScope /\ scopes[q].parent = p /\ scopes[v].parent = q
    /\ isViewport(State, v)
    /\ getOwnedScopes(State, RootScope, FALSE) = << v >>
    /\ hoistedChildren(State, RootScope) = << v >>

(***************************************************************************)
(* Specification SpecMatch: findViewports is called on the root scope of a *)
(* tree that owns viewports "left" and "right", viewport scopes "list"     *)
(* that catch "a" (with or without a shared backing collection, each bound *)
(* once) and a pass-through viewport scope with the viewport "main", and   *)
(* is then called again with the same arguments.                           *)
(***************************************************************************)
UsedBys == { << >>, << "a" >> }

\* The root scope alone, with the backing collection of n items
MatchRoot(n) ==
  [ scopes |-> [ s \in 1 .. (5 + MaxSlots + MaxInstructions) |->
                   IF s = RootScope
                   THEN ViewportScope(s, "rootScope", Null, TRUE, TRUE, << >>, Null, NullContent)
                   ELSE FreeScope ],
    collections |-> << [ k \in 1 .. n |-> k ] >>,
    itemId |-> [ k \in 1 .. n |-> k ],
    instructions |-> << >>,
    threw |-> FALSE, full |-> FALSE ]

RECURSIVE WithLists(_, _, _)
\* count viewport scopes "list" added to the root and bound, one by one
WithLists(st, count, source) ==
  IF count = 0 THEN st
  ELSE WithLists(binding(addViewportScope(st, RootScope, "list", << "a" >>, source),
                         NewScope(st)),
                 count - 1, source)

\* The pass-through viewport scope and the viewport below it
WithPassThrough(st, new) ==
  addViewport(addViewportScopeAt(st, RootScope, new, "pass", << >>, Null),
              new, "main", Null, FALSE, << >>)

\* The first viewport scope "list" of the tree, Null if there is none
FirstList(st) ==
  IF \E s \in DOMAIN st.scopes : st.scopes[s].name = "list"
  THEN CHOOSE s \in DOMAIN st.scopes :
         /\ st.scopes[s].name = "list"
         /\ \A t \in DOMAIN st.scopes : st.scopes[t].name = "list" => s <= t
  ELSE Null

\* The instructions of a navigation: 1 to 6 are top-level ones, 7 is the
\* nested instruction of 1.  5 carries the viewport "left" (scope 2), 6 the
\* first viewport scope "list".
WithInstructions(st) ==
  setViewport(
    [ st EXCEPT !.instructions =
        << [ ViewportInstruction("a", "") EXCEPT !.nextScopeInstructions = << 7 >> ],
           ViewportInstruction("b", ""),
           ViewportInstruction("b", "left"),
           ViewportInstruction(addViewportInstruction, ""),
           ViewportInstruction("b", ""),
           [ ViewportInstruction("a", "") EXCEPT !.viewportScope = FirstList(st) ],
           ViewportInstruction("c", "") >> ],
    5, 2)

\* The viewports "left" (with a scope of its own) and "right" (without)
WithViewports(st, leftUsedBy, rightUsedBy) ==
  addViewport(addViewport(st, RootScope, "left", Null, TRUE, leftUsedBy),
              RootScope, "right", Null, FALSE, rightUsedBy)

WithPassThroughOrNot(st, pass) ==
  IF pass THEN WithPassThrough(st, NewScope(st)) ELSE st

MatchTree(leftUsedBy, rightUsedBy, lists, source, n, pass) ==
  WithInstructions(
    WithPassThroughOrNot(
      WithLists(WithViewports(MatchRoot(n), leftUsedBy, rightUsedBy), lists, source),
      pass))

InitMatch ==
  /\ \E leftUsedBy \in UsedBys, rightUsedBy \in UsedBys,
        lists \in 0 .. MaxSlots, source \in { Null, 1 }, n \in 0 .. MaxInitItems,
        pass \in BOOLEAN :
       /\ lists > 0 \/ source = Null
       /\ source # Null \/ n = 0
       /\ LET st == MatchTree(leftUsedBy, rightUsedBy, lists, source, n, pass)
          IN /\ scopes = st.scopes
             /\ collections = st.collections
             /\ itemId = st.itemId
             /\ instructions = st.instructions
  /\ last = NoOperation
  /\ prev = NoOperation
  /\ ops = 0
  /\ promises = << >>
  /\ routes = << >>

\* The top-level instructions of the navigation
TopLevel == { i \in 1 .. 6 : i # 6 \/ instructions[i].viewportScope # Null }

RECURSIVE ListsOf(_, _)
\* The lists of len distinct elements of set
ListsOf(set, len) ==
  IF len = 0 THEN { << >> }
  ELSE UNION { { Append(list, i) : i \in set \ Range(list) } :
                 list \in ListsOf(set, len - 1) }

\* The lists of distinct top-level instructions
InstructionLists ==
  UNION { ListsOf(TopLevel, len) : len \in 1 .. MaxInstructions }

\* The instructions bound earlier in the navigation: none, or those that
\* carry a slot and are not in the list
AlreadyFounds(list) ==
  { << >>, SelectSeq(<< 5, 6 >>, LAMBDA i : i \in TopLevel /\ i \notin Range(list)) }

\* What a call of findViewports leaves for the properties to read
Call(op, list, alreadyFound, disregardViewports, materialize, r) ==
  [ op |-> op, scope |-> RootScope, content |-> NullContent, threw |-> r.st.threw,
    before |-> [ collections |-> collections, scopes |-> scopes,
                 instructions |-> instructions ],
    list |-> list, alreadyFound |-> alreadyFound,
    disregardViewports |-> disregardViewports, materialize |-> materialize,
    foundViewports |-> r.foundViewports,
    remainingInstructions |-> r.remainingInstructions,
    boundBy |-> r.boundBy, added |-> r.added, acceptors |-> r.acceptors ]

\* The call returned (or threw) with r
Called(op, list, alreadyFound, disregardViewports, materialize, r) ==
  /\ ~r.st.full
  /\ Apply(r.st, Call(op, list, alreadyFound, disregardViewports, materialize, r))

\* findViewports called on the root scope, with any list of the instructions
FindViewports ==
  /\ ops = 0
  /\ \E list \in InstructionLists, disregardViewports \in BOOLEAN, materialize \in BOOLEAN :
       \E alreadyFound \in AlreadyFounds(list) :
         /\ materialize => \E s \in DOMAIN scopes : scopes[s].source # Null
         /\ Called("findViewports", list, alreadyFound, disregardViewports, materialize,
                   findViewports(State, RootScope, list, alreadyFound, disregardViewports,
                                 materialize))

\* The same call once more, on the instructions as the first call left them
FindViewportsAgain ==
  /\ ops = 1
  /\ Called("again", last.list, last.alreadyFound, last.disregardViewports,
            last.materialize,
            findViewports(State, RootScope, last.list, last.alreadyFound,
                          last.disregardViewports, last.materialize))

NextMatch ==
  \/ FindViewports
  \/ FindViewportsAgain

SpecMatch == InitMatch /\ [][NextMatch]_vars

(***************************************************************************)
(* Properties of findViewports (under SpecMatch).  last is the call that   *)
(* led to the state, last.before the state it started from.                *)
(***************************************************************************)
Returned == last.op \in { "findViewports", "again" }

\* Instruction i as it was handed to the call
Entry(i) == last.before.instructions[i]

\* The state the call started from
Before ==
  [ State EXCEPT !.scopes = last.before.scopes,
                 !.collections = last.before.collections,
                 !.instructions = last.before.instructions ]

IsFound(i) == i \in Range(last.foundViewports)

RECURSIVE Nested(_)
\* The nextScopeInstructions of the instructions of list, in its order
Nested(list) ==
  IF list = << >> THEN << >>
  ELSE instructions[Head(list)].nextScopeInstructions \o Nested(Tail(list))

NoDuplicates(list) == \A j, k \in DOMAIN list : j # k => list[j] # list[k]

\* C3: findViewports partitions its input: every input instruction is either
\* in foundViewports or in remainingInstructions, never in both, never
\* dropped and never twice, and remainingInstructions is the unbound input
\* instructions followed by the nested instructions of the bound ones.
C3_PartitionsInput ==
  Returned =>
    /\ ~last.threw
    /\ \A i \in Range(last.list) : IsFound(i) # (i \in Range(last.remainingInstructions))
    /\ Range(last.foundViewports) \subseteq Range(last.list)
    /\ NoDuplicates(last.foundViewports)
    /\ NoDuplicates(last.remainingInstructions)
    /\ last.remainingInstructions =
         SelectSeq(last.list, LAMBDA i : ~IsFound(i)) \o Nested(last.foundViewports)

\* The slot the k-th found instruction was bound to: a viewport scope by
\* passes 1 and 3, a viewport by the others
SlotOf(k) ==
  IF last.boundBy[k] \in { 1, 3 }
  THEN instructions[last.foundViewports[k]].viewportScope
  ELSE instructions[last.foundViewports[k]].viewport

\* C4: within one call no viewport and no viewport scope is bound to two
\* instructions of foundViewports, and none is bound that an instruction of
\* alreadyFound occupies.
C4_SlotBoundOnce ==
  Returned /\ ~last.threw =>
    /\ \A j, k \in DOMAIN last.foundViewports :
         j # k /\ SlotOf(j) > Null => SlotOf(j) # SlotOf(k)
    /\ \A k \in DOMAIN last.foundViewports, a \in Range(last.alreadyFound) :
         SlotOf(k) > Null =>
           /\ Entry(a).viewportScope # SlotOf(k)
           /\ Entry(a).viewport # SlotOf(k)

\* The instruction carried a resolved slot reference
Resolved(ins) == ins.viewportScope > Null \/ ins.viewport > Null

\* The call bound every instruction of its list in passes 1 and 2, each to
\* the slot it carried at first
BoundAsResolved(call, first) ==
  /\ ~call.threw
  /\ Range(call.foundViewports) = Range(call.list)
  /\ Len(call.foundViewports) = Len(call.list)
  /\ \A k \in DOMAIN call.boundBy : call.boundBy[k] \in { 1, 2 }
  /\ \A i \in Range(call.list) :
       /\ instructions[i].viewportScope = first[i].viewportScope
       /\ instructions[i].viewport = first[i].viewport

\* C5 as claimed: if every instruction of the input carries a resolved slot
\* reference, each is bound in passes 1-2 to exactly that slot, and a second
\* run on the same instructions gives the same bindings.
C5_ResolvedBoundInFirstPasses ==
  /\ Returned /\ (\A i \in Range(last.list) : Resolved(Entry(i)))
       => BoundAsResolved(last, last.before.instructions)
  /\ last.op = "again" /\ (\A i \in Range(prev.list) : Resolved(prev.before.instructions[i]))
       => /\ BoundAsResolved(last, prev.before.instructions)
          /\ last.foundViewports = prev.foundViewports

\* The case C5 holds in: default mode, and no instruction that carries a
\* viewport scope is an add request
ResolvedInDefaultMode(call) ==
  /\ ~call.disregardViewports
  /\ \A i \in Range(call.list) :
       /\ Resolved(call.before.instructions[i])
       /\ call.before.instructions[i].viewportScope > Null
            => ~isAddViewportInstruction(call.before.instructions[i])

\* C5: in default mode, if every instruction of the input carries a resolved
\* slot reference and none that carries a viewport scope is an add request,
\* each is bound in passes 1-2 to exactly that slot, no later pass binds any,
\* and a second run on the same instructions gives the same bindings.
C5_ResolvedBoundInDefaultMode ==
  /\ Returned /\ ResolvedInDefaultMode(last)
       => BoundAsResolved(last, last.before.instructions)
  /\ last.op = "again" /\ ResolvedInDefaultMode(prev)
       => /\ BoundAsResolved(last, prev.before.instructions)
          /\ last.foundViewports = prev.foundViewports

\* A second run in default mode on two instructions that carried a viewport
\* and a viewport scope from the start
C5_Witness ==
  /\ last.op = "again"
  /\ ResolvedInDefaultMode(prev)
  /\ \E j, k \in Range(last.list) :
       /\ prev.before.instructions[j].viewport > Null
       /\ prev.before.instructions[k].viewportScope > Null
  /\ last.boundBy = << 1, 2 >>

\* The viewport scopes and the viewports the scope owned when called
OwnedViewportScopes ==
  SelectSeq(getOwnedScopes(Before, RootScope, FALSE), LAMBDA c : isViewportScope(Before, c))
OwnedViewports ==
  SelectSeq(getOwnedScopes(Before, RootScope, FALSE), LAMBDA c : isViewport(Before, c))

AcceptedByViewportScope(i) ==
  \E k \in DOMAIN OwnedViewportScopes :
    acceptSegment(Before, OwnedViewportScopes[k], Entry(i).componentName)

\* The instruction names no slot, no owned viewport scope accepts it and no
\* owned viewport wants it
Unclaimed(i) ==
  /\ Entry(i).viewportName = ""
  /\ ~AcceptedByViewportScope(i)
  /\ \A k \in DOMAIN OwnedViewports :
       ~wantComponent(Before, OwnedViewports[k], Entry(i).componentName)

\* C6: in default mode an instruction that names no slot, is accepted by no
\* viewport scope and wanted by no viewport, and that two or more, or no,
\* available viewports accept, is not bound: it is in remainingInstructions
\* and has no viewport.
C6_AmbiguityLeavesUnbound ==
  Returned /\ ~last.disregardViewports =>
    \A e \in Range(last.acceptors) :
      Unclaimed(e[1]) /\ e[2] # 1 =>
        /\ ~last.threw
        /\ ~IsFound(e[1])
        /\ e[1] \in Range(last.remainingInstructions)
        /\ instructions[e[1]].viewport = Null
        /\ instructions[e[1]].viewportScope = Null

\* Two instructions nobody claims, while several available viewports accept
\* them
C6_Witness ==
  /\ Returned /\ ~last.disregardViewports
  /\ Len(last.acceptors) = 2
  /\ \A e \in Range(last.acceptors) : Unclaimed(e[1]) /\ e[2] >= 2

\* C7: an instruction without a slot reference that an owned viewport scope
\* accepts is bound to a viewport scope, never to a viewport.
C7_ViewportScopeBeforeViewport ==
  Returned =>
    \A i \in Range(last.list) :
      /\ Entry(i).viewportScope = Null
      /\ Entry(i).viewport = Null
      /\ AcceptedByViewportScope(i)
      => /\ IsFound(i)
         /\ instructions[i].viewport = Null
         /\ instructions[i].viewportScope > Null
         /\ isViewportScope(State, instructions[i].viewportScope)

\* The items appended to the backing collection during the call
NewItems == Range(collections[1]) \ Range(last.before.collections[1])

\* C8: when pass 3 adds to the backing collection (no available viewport
\* scope of the name, or an add request), one item is appended for the
\* instruction and the instruction is bound to a viewport scope that has
\* claimed the new item.
C8_AddBindsToNewItem ==
  Returned =>
    /\ Cardinality(NewItems) = Len(last.added)
    /\ \A i \in Range(last.added) :
         /\ IsFound(i)
         /\ instructions[i].viewportScope > Null
         /\ scopes[instructions[i].viewportScope].sourceItem \in NewItems

\* C9: findViewports never throws, and every instruction of foundViewports
\* has a viewport or a viewport scope.
C9_ReturnsData ==
  Returned =>
    /\ ~last.threw
    /\ \A i \in Range(last.foundViewports) :
         instructions[i].viewport > Null \/ instructions[i].viewportScope > Null

\* The pass that bound instruction i in the call, 0 if none did
PassOf(i) ==
  IF IsFound(i)
  THEN last.boundBy[CHOOSE k \in DOMAIN last.foundViewports : last.foundViewports[k] = i]
  ELSE 0

\* The instruction was in the list and no pass up to the sole-acceptor pass
\* bound it
UnresolvedAfterSoleAcceptor(i) == i \in Range(last.list) /\ PassOf(i) \notin 1 .. 6

\* The enabled owned viewport the instruction names, Null if there is none
NamedViewport(i) ==
  IF \E k \in DOMAIN OwnedViewports : Before.scopes[OwnedViewports[k]].name = Entry(i).viewportName
  THEN OwnedViewports[CHOOSE k \in DOMAIN OwnedViewports :
                        Before.scopes[OwnedViewports[k]].name = Entry(i).viewportName]
  ELSE Null

\* The viewport the forced bind is to: the instruction's own, else the named
ForcedTo(i) == IF Entry(i).viewport > Null THEN Entry(i).viewport ELSE NamedViewport(i)

BoundByForce(i) == PassOf(i) = 7 /\ instructions[i].viewport = ForcedTo(i)

NoForcedBind ==
  /\ \A k \in DOMAIN last.boundBy : last.boundBy[k] # 7
  /\ \A i \in Range(last.list) :
       UnresolvedAfterSoleAcceptor(i) =>
         ~IsFound(i) /\ i \in Range(last.remainingInstructions)

\* C25 as claimed: with disregardViewports true an instruction still
\* unresolved after the sole-acceptor pass is bound to its own viewport if it
\* has one, else to the enabled owned viewport it names, however many
\* viewports accept the component; with disregardViewports false no such
\* bind is made and the instruction stays in remainingInstructions.
C25_ForcedBindWhenDisregarding ==
  Returned =>
    IF last.disregardViewports
    THEN \A i \in Range(last.list) :
           UnresolvedAfterSoleAcceptor(i) /\ ForcedTo(i) > Null => BoundByForce(i)
    ELSE NoForcedBind

Position(list, i) == CHOOSE k \in DOMAIN list : list[k] = i

\* The viewport was taken from the available ones before the forced bind of
\* instruction i: by an instruction of alreadyFound, by an earlier pass or by
\* the forced bind of an instruction earlier in the list
TakenBefore(i, viewport) ==
  \/ \E a \in Range(last.alreadyFound) :
       /\ Entry(a).scope = RootScope
       /\ Entry(a).viewportName = Before.scopes[viewport].name
  \/ \E j \in Range(last.foundViewports) :
       /\ j # i
       /\ instructions[j].viewport = viewport
       /\ PassOf(j) = 7 => Position(last.list, j) < Position(last.list, i)

\* The forced bind is made: the viewport accepts the component, and a named
\* one is still available
Forced(i) ==
  /\ ForcedTo(i) > Null
  /\ acceptComponent(Before, ForcedTo(i), Entry(i).componentName)
  /\ Entry(i).viewport > Null \/ ~TakenBefore(i, ForcedTo(i))

\* What holds of C25, of a call that does not throw: with disregardViewports
\* true the instruction is bound to its own viewport if that accepts the
\* component, else to the enabled owned viewport it names if that is still
\* available and accepts the component; with disregardViewports false no
\* such bind is made.
C25_ForcedBindOfAcceptingViewport ==
  Returned /\ ~last.threw =>
    IF last.disregardViewports
    THEN \A i \in Range(last.list) :
           UnresolvedAfterSoleAcceptor(i) =>
             IF Forced(i) THEN BoundByForce(i) ELSE ~IsFound(i)
    ELSE NoForcedBind

\* A forced bind to a viewport that is one of two accepting the component,
\* and one to the instruction's own viewport
C25_Witness ==
  /\ Returned /\ last.disregardViewports
  /\ \E i, j \in Range(last.list) :
       /\ Entry(i).viewport = Null /\ BoundByForce(i)
       /\ Entry(j).viewport > Null /\ BoundByForce(j)

\* A call in default mode that leaves an instruction unresolved
C25_WitnessDefault ==
  /\ Returned /\ ~last.disregardViewports
  /\ \E i \in Range(last.list) : UnresolvedAfterSoleAcceptor(i) /\ Entry(i).viewportName # ""

\* The scope tree, the slots and the backing collections are as they were
\* when the call was made
FrameKept == scopes = last.before.scopes /\ collections = last.before.collections

\* C26: findViewports changes no state other than fields of the instructions
\* it is given: the scope tree (children lists, enabled flags, parent
\* references), the content and claims of every slot and every backing
\* collection are the same after the call as before it, for every input.
C26_FindViewportsKeepsFrame == Returned => FrameKept

\* What holds of C26: the same of a call in which pass 3 adds no item
C26_KeepsFrameUnlessAdding == Returned /\ last.added = << >> => FrameKept

(***************************************************************************)
(* Specification SpecLeave: Scope.canLeave is called on the root of a tree *)
(* of viewports and viewport scopes, one of which may be disabled.  The    *)
(* canLeave of each viewport completes at any time, with true or false or  *)
(* by a rejection; promises holds the state of the promise of each scope.  *)
(***************************************************************************)
LeaveScopes == 2 .. (MaxLeaveScopes + 1)

\* The scope added as the k-th object: a viewport or a viewport scope below
\* the parent the shape names
GrowOne(st, k, shape) ==
  IF shape[k][2] = "viewport"
  THEN addViewport(st, shape[k][1], ToString(k), Null, FALSE, << >>)
  ELSE addViewportScope(st, shape[k][1], ToString(k), << >>, Null)

RECURSIVE Grow(_, _, _)
Grow(st, k, shape) ==
  IF k > MaxLeaveScopes + 1 THEN st ELSE Grow(GrowOne(st, k, shape), k + 1, shape)

LeaveShapes ==
  { shape \in [ LeaveScopes -> (1 .. MaxLeaveScopes) \X { "viewport", "viewportScope" } ] :
      \A k \in LeaveScopes : shape[k][1] < k }

LeaveRoot ==
  [ scopes |-> [ s \in 1 .. (MaxLeaveScopes + 1) |->
                   IF s = RootScope
                   THEN ViewportScope(s, "rootScope", Null, TRUE, TRUE, << >>, Null, NullContent)
                   ELSE FreeScope ],
    collections |-> << >>, itemId |-> << >>, instructions |-> << >>,
    threw |-> FALSE, full |-> FALSE ]

InitLeave ==
  /\ \E shape \in LeaveShapes, disabled \in { Null } \cup LeaveScopes :
       scopes = [ s \in 1 .. (MaxLeaveScopes + 1) |->
                    [ Grow(LeaveRoot, 2, shape).scopes[s] EXCEPT !.enabled = (s # disabled) ] ]
  /\ collections = << >>
  /\ itemId = << >>
  /\ instructions = << >>
  /\ last = NoOperation
  /\ prev = NoOperation
  /\ ops = 0
  /\ promises = [ s \in 1 .. (MaxLeaveScopes + 1) |-> "idle" ]
  /\ routes = << >>

\* The children canLeave asks: this.children
LeaveChildrenEnabled(st, s) == enabledChildren(st, s)

LeaveChildren(st, s) == st.scopes[s].children

RECURSIVE FanOut(_, _), FanOutOfEach(_, _)
\* The scopes whose canLeave is called, synchronously, by canLeave of s:
\* viewport.canLeave() of a child with a viewport, child.canLeave() otherwise
FanOut(st, s) ==
  { s } \cup (IF isViewport(st, s) THEN { } ELSE FanOutOfEach(st, LeaveChildren(st, s)))

FanOutOfEach(st, list) ==
  IF list = << >> THEN { }
  ELSE FanOut(st, Head(list)) \cup FanOutOfEach(st, Tail(list))

\* Promise.all over the promises of the children: rejected with the first
\* rejection, fulfilled when all are fulfilled
PromiseAll(states) ==
  IF \E k \in DOMAIN states : states[k] = "rejected" THEN "rejected"
  ELSE IF \E k \in DOMAIN states : states[k] = "pending" THEN "pending"
  ELSE "fulfilled"

\* !results.some(result => result === false)
NoneFalse(results) ==
  IF \E k \in DOMAIN results : results[k] = "false" THEN "false" ELSE "true"

\* The promises of the children canLeave of s waits for
ChildPromises(st, s) ==
  [ k \in DOMAIN LeaveChildren(st, s) |-> promises[LeaveChildren(st, s)[k]] ]

\* Scope.canLeave() is called on the root: up to its await
CanLeave ==
  /\ promises[RootScope] = "idle"
  /\ promises' = [ s \in DOMAIN promises |->
                     IF s \in FanOut(State, RootScope) THEN "pending" ELSE "idle" ]
  /\ UNCHANGED <<scopes, collections, itemId, instructions, last, prev, ops, routes>>

\* viewport.canLeave() of a viewport completes
ViewportCanLeave(v, outcome) ==
  /\ isViewport(State, v)
  /\ promises[v] = "pending"
  /\ promises' = [ promises EXCEPT ![v] = outcome ]
  /\ UNCHANGED <<scopes, collections, itemId, instructions, last, prev, ops, routes>>

\* Scope.canLeave() of s goes on after its await and returns, or throws what
\* the await threw
CanLeaveReturns(s) ==
  /\ ~isViewport(State, s)
  /\ promises[s] = "pending"
  /\ PromiseAll(ChildPromises(State, s)) # "pending"
  /\ promises' = [ promises EXCEPT ![s] =
                     IF PromiseAll(ChildPromises(State, s)) = "rejected" THEN "rejected"
                     ELSE NoneFalse(ChildPromises(State, s)) ]
  /\ UNCHANGED <<scopes, collections, itemId, instructions, last, prev, ops, routes>>

NextLeave ==
  \/ CanLeave
  \/ \E v \in DOMAIN scopes, outcome \in { "true", "false", "rejected" } :
       ViewportCanLeave(v, outcome)
  \/ \E s \in DOMAIN scopes : CanLeaveReturns(s)

SpecLeave == InitLeave /\ [][NextLeave]_vars

Fulfilled(p) == p \in { "true", "false" }

\* C11: canLeave of a scope is called on all its children, resolves only
\* when the results of all of them are there, whatever the order they came
\* in, and resolves to false exactly when one of them is false.
C11_CanLeaveIsAndOfChildren ==
  \A s \in DOMAIN scopes :
    ~isViewport(State, s) =>
      /\ promises[s] # "idle" =>
           \A k \in DOMAIN scopes[s].children : promises[scopes[s].children[k]] # "idle"
      /\ Fulfilled(promises[s]) =>
           /\ \A k \in DOMAIN scopes[s].children : Fulfilled(promises[scopes[s].children[k]])
           /\ promises[s] = "false" <=>
                \E k \in DOMAIN scopes[s].children : promises[scopes[s].children[k]] = "false"

\* The root has resolved to false over two children or more, exactly one of
\* which resolved to false, and that one is disabled
C11_Witness ==
  /\ promises[RootScope] = "false"
  /\ Len(scopes[RootScope].children) >= 2
  /\ Cardinality({ k \in DOMAIN scopes[RootScope].children :
                     promises[scopes[RootScope].children[k]] = "false" }) = 1
  /\ \E k \in DOMAIN scopes[RootScope].children :
       /\ promises[scopes[RootScope].children[k]] = "false"
       /\ ~scopes[scopes[RootScope].children[k]].enabled

(***************************************************************************)
(* Route matching.  A string is the sequence of its characters; a value    *)
(* that may be missing (undefined, null) is a sequence of none or one.     *)
(***************************************************************************)
None == << >>
Some(value) == << value >>

\* String.prototype.startsWith(c), c of one character
startsWith(str, c) == Len(str) > 0 /\ str[1] = c

\* An index argument of slice, brought into 0 .. length
ClampIndex(str, k) == IF k < 0 THEN Max(Len(str) + k, 0) ELSE Min(k, Len(str))

\* String.prototype.slice(start, end), characters counted from 0
stringSlice(str, start, end) ==
  SubSeq(str, ClampIndex(str, start) + 1, ClampIndex(str, end))

\* The places, counted from 0, where sub occurs in str
Occurrences(str, sub) ==
  { k \in 0 .. (Len(str) - Len(sub)) : SubSeq(str, k + 1, k + Len(sub)) = sub }

\* The least of some places, or -1 when there is none
FirstOf(places) ==
  IF places = { } THEN -1 ELSE CHOOSE k \in places : \A j \in places : k <= j

\* String.prototype.indexOf(sub): the first place, or -1
stringIndexOf(str, sub) == FirstOf(Occurrences(str, sub))

\* 'remainingPath', the name of the parameter of the added wildcard segment
remainingPath == << "r", "e", "m", "a", "i", "n", "i", "n", "g", "P", "a", "t", "h" >>

(***************************************************************************)
(* The recognizer: a path template is a list of segments separated by '/'; *)
(* a segment ':name' takes one segment of the path, a final '*name' takes  *)
(* all the rest of it, any other segment takes itself.                     *)
(***************************************************************************)
RECURSIVE split(_), SplitAt(_, _)
\* The segments of a string
split(str) == SplitAt(str, stringIndexOf(str, << "/" >>))

SplitAt(str, at) ==
  IF at < 0 THEN << str >>
  ELSE << stringSlice(str, 0, at) >> \o split(stringSlice(str, at + 1, Len(str)))

RECURSIVE join(_)
join(segments) ==
  IF segments = << >> THEN << >>
  ELSE IF Len(segments) = 1 THEN Head(segments)
  ELSE Head(segments) \o << "/" >> \o join(Tail(segments))

\* The parameters of a match in which a segment ':name' took a value
MatchDynamic(name, value, rest) ==
  IF value = << >> \/ rest = None THEN None ELSE Some((name :> value) @@ rest[1])

\* The parameters of a match in which a segment '*name' took the rest
MatchStar(name, value) ==
  IF value = << >> THEN None ELSE Some(name :> value)

RECURSIVE matchSegments(_, _)
\* The parameters with which the segments of a path match those of a
\* template, or None
matchSegments(template, segments) ==
  IF template = << >> THEN (IF segments = << >> THEN Some(<< >>) ELSE None)
  ELSE IF segments = << >> THEN None
  ELSE IF startsWith(Head(template), "*")
  THEN IF Len(template) > 1 THEN None ELSE MatchStar(Tail(Head(template)), join(segments))
  ELSE IF startsWith(Head(template), ":")
  THEN MatchDynamic(Tail(Head(template)), Head(segments),
                    matchSegments(Tail(template), Tail(segments)))
  ELSE IF Head(template) = Head(segments)
  THEN matchSegments(Tail(template), Tail(segments))
  ELSE None

RECURSIVE RecognizeFrom(_, _, _), RecognizeAt(_, _, _, _)
\* The first configured route, from the k-th on, that matches the segments
RecognizeFrom(cRoutes, segments, k) ==
  IF k > Len(cRoutes) THEN None
  ELSE RecognizeAt(cRoutes, segments, k, matchSegments(split(cRoutes[k].path), segments))

RecognizeAt(cRoutes, segments, k, params) ==
  IF params = None THEN RecognizeFrom(cRoutes, segments, k + 1)
  ELSE Some([ endpoint |-> cRoutes[k], params |-> params[1] ])

\* RouteRecognizer.recognize(path): the first configured route that matches,
\* with the parameters of the match, or null
recognize(cRoutes, path) == RecognizeFrom(cRoutes, split(path), 1)

(***************************************************************************)
(* Routes and found routes                                                 *)
(***************************************************************************)
\* The value '' of instruction.route
EmptyRoute == -2

\* A declared route (IRoute): id and instructions may be missing
Route(path, id, component, list) ==
  [ path |-> path, id |-> id, component |-> component, viewport |-> "",
    instructions |-> list ]

\* new FoundRoute()
FoundRoute ==
  [ match |-> None, matching |-> << >>, remaining |-> << >>, params |-> << >>,
    instructions |-> << >> ]

\* FoundRoute.foundConfiguration
foundConfiguration(found) == found.match # None

\* A list of instructions with one more in front
Prepend(ref, r) == [ instructions |-> r.instructions, list |-> << ref >> \o r.list ]

RECURSIVE toViewportInstructions(_, _)
\* NavigationInstructionResolver.toViewportInstructions(router, items): a
\* ViewportInstruction is kept, one is made of any other item
toViewportInstructions(heap, items) ==
  IF items = << >> THEN [ instructions |-> heap, list |-> << >> ]
  ELSE IF "instruction" \in DOMAIN Head(items)
  THEN Prepend(Head(items).instruction, toViewportInstructions(heap, Tail(items)))
  ELSE Prepend(Len(heap) + 1,
               toViewportInstructions(
                 Append(heap, ViewportInstruction(Head(items).component, Head(items).viewport)),
                 Tail(items)))

\* The items ensureProperRoute gives to toViewportInstructions
RouteItems(route) ==
  IF route.instructions = None
  THEN << [ component |-> route.component, viewport |-> route.viewport ] >>
  ELSE [ j \in DOMAIN route.instructions[1] |-> [ instruction |-> route.instructions[1][j] ] ]

\* The table after ensureProperRoute of its k-th route
EnsuredRoute(rs, k, resolved) ==
  [ routes |-> [ rs.routes EXCEPT ![k] =
                   [ @ EXCEPT !.id = IF @ = None THEN Some(rs.routes[k].path) ELSE @,
                              !.instructions = Some(resolved.list) ] ],
    instructions |-> resolved.instructions ]

\* Scope.ensureProperRoute(route), of the k-th route of the table
ensureProperRoute(rs, k) ==
  EnsuredRoute(rs, k, toViewportInstructions(rs.instructions, RouteItems(rs.routes[k])))

RECURSIVE ensureProperRoutes(_, _)
\* routes.map(route => this.ensureProperRoute(route)), from the k-th on
ensureProperRoutes(rs, k) ==
  IF k > Len(rs.routes) THEN rs ELSE ensureProperRoutes(ensureProperRoute(rs, k), k + 1)

\* The routes given to the recognizer: each route, then each route again
\* with '/*remainingPath' added to its path
ConfigurableRoutes(list) ==
  [ k \in 1 .. (2 * Len(list)) |->
      IF k <= Len(list)
      THEN [ path |-> list[k].path, handler |-> k ]
      ELSE [ path |-> list[k - Len(list)].path \o << "/", "*" >> \o remainingPath,
             handler |-> k - Len(list) ] ]

\* path.slice(1) of a path that starts with '/' or '+'
StripLeading(path) ==
  IF startsWith(path, "/") \/ startsWith(path, "+")
  THEN stringSlice(path, 1, Len(path))
  ELSE path

\* The parameters without remainingPath
WithoutRemainingPath(params) ==
  [ name \in DOMAIN params \ { remainingPath } |-> params[name] ]

\* found.matching.slice(0, found.matching.indexOf(found.remaining))
MatchingOf(path, remaining) == stringSlice(path, 0, stringIndexOf(path, remaining))

\* The found route after the recognizer has answered
Recognize(path, result) ==
  IF result = None THEN FoundRoute
  ELSE IF remainingPath \in DOMAIN result[1].params
  THEN [ FoundRoute EXCEPT !.match = Some(result[1].endpoint.handler),
                           !.remaining = result[1].params[remainingPath],
                           !.matching = MatchingOf(path, result[1].params[remainingPath]),
                           !.params = WithoutRemainingPath(result[1].params) ]
  ELSE [ FoundRoute EXCEPT !.match = Some(result[1].endpoint.handler),
                           !.matching = path,
                           !.params = result[1].params ]

\* The copy of an instruction: keepInstances is false
CloneOf(ins, nested) ==
  [ ins EXCEPT !.nextScopeInstructions = nested, !.viewport = Null, !.viewportScope = Null ]

RECURSIVE cloneViewportInstructions(_, _), CloneHead(_, _, _), CloneTail(_, _)
\* InstructionResolver.cloneViewportInstructions(list, false, true): new
\* instructions, and new ones for their nextScopeInstructions
cloneViewportInstructions(heap, list) ==
  IF list = << >> THEN [ instructions |-> heap, list |-> << >> ]
  ELSE CloneHead(heap, list,
                 cloneViewportInstructions(heap, heap[Head(list)].nextScopeInstructions))

CloneHead(heap, list, nested) ==
  CloneTail(list, Append(nested.instructions, CloneOf(heap[Head(list)], nested.list)))

CloneTail(list, heap) ==
  Prepend(Len(heap), cloneViewportInstructions(heap, Tail(list)))

\* ViewportInstruction.addParameters(parameters)
addParameters(ins, params) == [ ins EXCEPT !.parameters = params @@ @ ]

RECURSIVE WalkTopLevel(_, _, _)
\* The loop without the instructions below
WalkTopLevel(heap, queue, params) ==
  IF queue = << >> THEN heap
  ELSE WalkTopLevel(
         [ heap EXCEPT ![Head(queue)] = [ addParameters(@, params) EXCEPT !.route = EmptyRoute ] ],
         Tail(queue),
         params)

RECURSIVE WalkInstructions(_, _, _)
\* The while loop of findMatchingRouteInRoutes over the copied instructions
WalkInstructions(heap, queue, params) ==
  IF queue = << >> THEN heap
  ELSE WalkInstructions(
         [ heap EXCEPT ![Head(queue)] = [ addParameters(@, params) EXCEPT !.route = EmptyRoute ] ],
         heap[Head(queue)].nextScopeInstructions \o Tail(queue),
         params)

\* found.instructions[0].route = found, of the found route numbered id
StampFirst(heap, list, id) ==
  IF Len(list) > 0 THEN [ heap EXCEPT ![list[1]].route = id ] ELSE heap

\* The instructions of the found route: copied, given the parameters, the
\* first one given the found route
FoundInstructions(rs, found, id, cloned) ==
  [ routes |-> Some(rs.routes),
    instructions |-> StampFirst(WalkInstructions(cloned.instructions, cloned.list, found.params),
                                cloned.list, id),
    found |-> Some([ found EXCEPT !.instructions = cloned.list ]) ]

\* findMatchingRouteInRoutes from new FoundRoute() on
FindIn(rs, path, id, found) ==
  IF foundConfiguration(found)
  THEN FoundInstructions(rs, found, id,
         cloneViewportInstructions(rs.instructions,
                                   rs.routes[found.match[1]].instructions[1]))
  ELSE [ routes |-> Some(rs.routes), instructions |-> rs.instructions, found |-> Some(found) ]

\* Array.isArray(routes)
isArray(table) == table # None

\* null also when no route matches
findMatchingRouteOrNull(table, heap, path, id) ==
  IF ~isArray(table)
  THEN [ routes |-> table, instructions |-> heap, found |-> None ]
  ELSE IF recognize(ConfigurableRoutes(table[1]), StripLeading(path)) = None
  THEN [ routes |-> table, instructions |-> heap, found |-> None ]
  ELSE FindIn(ensureProperRoutes([ routes |-> table[1], instructions |-> heap ], 1),
              StripLeading(path), id,
              Recognize(StripLeading(path),
                        recognize(ConfigurableRoutes(table[1]), StripLeading(path))))

\* Scope.findMatchingRouteInRoutes(path, routes); id numbers the FoundRoute
findMatchingRouteInRoutes(table, heap, path, id) ==
  IF ~isArray(table)
  THEN [ routes |-> table, instructions |-> heap, found |-> None ]
  ELSE FindIn(ensureProperRoutes([ routes |-> table[1], instructions |-> heap ], 1),
              StripLeading(path), id,
              Recognize(StripLeading(path),
                        recognize(ConfigurableRoutes(table[1]), StripLeading(path))))

(***************************************************************************)
(* Specification SpecRoute: findMatchingRouteInRoutes is called with a     *)
(* path on the route table of a component, again and again; the caller may *)
(* change the instructions of the found route it was given.                *)
(***************************************************************************)
PathSegments == { << "a" >>, << "5" >>, << "b" >>, << "c" >> }

Leads == { << >>, << "/" >>, << "+" >> }

\* The paths of n segments
PathsOf(n) == { join(segments) : segments \in [ 1 .. n -> PathSegments ] }

Paths == { lead \o path : lead \in Leads, path \in UNION { PathsOf(n) : n \in 0 .. MaxSegments } }

\* The instructions the declared routes hold
DeclaredInstructions ==
  << [ ViewportInstruction("x", "") EXCEPT !.nextScopeInstructions = << 2 >> ],
     ViewportInstruction("y", ""),
     ViewportInstruction("z", ""),
     ViewportInstruction("w", "") >>

DeclaredRoutes ==
  << Route(<< "a", "/", ":", "i", "d" >>, None, "x", None),
     Route(<< "a", "/", ":", "i", "d" >>, Some(<< "d" >>), "x", Some(<< 1 >>)),
     Route(<< "a" >>, None, "x", Some(<< >>)),
     Route(<< ":", "i", "d", "/", "b" >>, None, "x", Some(<< 3, 4 >>)) >>

\* The route tables: none, an empty one, one of each route, and some of two
RouteTables ==
  { None, Some(<< >>) }
    \cup { Some(<< DeclaredRoutes[k] >>) : k \in DOMAIN DeclaredRoutes }
    \cup { Some(<< DeclaredRoutes[1], DeclaredRoutes[3] >>),
           Some(<< DeclaredRoutes[3], DeclaredRoutes[4] >>),
           Some(<< DeclaredRoutes[4], DeclaredRoutes[2] >>),
           Some(<< DeclaredRoutes[2], DeclaredRoutes[1] >>) }

InitRoute ==
  /\ routes \in RouteTables
  /\ instructions = DeclaredInstructions
  /\ scopes = << >>
  /\ collections = << >>
  /\ itemId = << >>
  /\ promises = << >>
  /\ last = NoOperation
  /\ prev = NoOperation
  /\ ops = 0

\* The state after a call that returned r
Found(path, r) ==
  /\ routes' = r.routes
  /\ instructions' = r.instructions
  /\ last' = [ op |-> "findMatchingRouteInRoutes", path |-> path, id |-> ops + 1,
               found |-> r.found,
               before |-> [ routes |-> routes, instructions |-> instructions ] ]
  /\ prev' = last
  /\ ops' = ops + 1
  /\ UNCHANGED <<scopes, collections, itemId, promises>>

\* The first call
FindMatchingRoute ==
  /\ ops = 0
  /\ \E path \in Paths :
       Found(path, findMatchingRouteInRoutes(routes, instructions, path, ops + 1))

\* A later call
FindMatchingRouteAgain ==
  /\ ops > 0
  /\ ops < MaxCalls
  /\ Found(last.path, findMatchingRouteInRoutes(routes, instructions, last.path, ops + 1))

RECURSIVE TreeOf(_, _)
\* The instructions of a list and those below them
TreeOf(heap, list) ==
  IF list = << >> THEN { }
  ELSE { Head(list) } \cup TreeOf(heap, heap[Head(list)].nextScopeInstructions)
                      \cup TreeOf(heap, Tail(list))

\* The caller changes the instructions of the found route it was given
ChangeFound ==
  /\ ops > 0
  /\ ops < MaxCalls
  /\ last.op = "findMatchingRouteInRoutes"
  /\ last.found # None
  /\ last.found[1].instructions # << >>
  /\ instructions' =
       [ i \in DOMAIN instructions |->
           IF i \in TreeOf(instructions, last.found[1].instructions)
           THEN [ instructions[i] EXCEPT !.componentName = "changed",
                                         !.nextScopeInstructions = << >> ]
           ELSE instructions[i] ]
  /\ last' = [ last EXCEPT !.op = "change" ]
  /\ prev' = last
  /\ ops' = ops + 1
  /\ UNCHANGED <<scopes, collections, itemId, promises, routes>>

NextRoute ==
  \/ FindMatchingRoute
  \/ FindMatchingRouteAgain
  \/ ChangeFound

SpecRoute == InitRoute /\ [][NextRoute]_vars

\* The last operation was a call of findMatchingRouteInRoutes
CalledRoute == last.op = "findMatchingRouteInRoutes"

\* The last call found a route of the table
FoundARoute == CalledRoute /\ last.found # None /\ foundConfiguration(last.found[1])

\* Every route of the table the last call was given has the path a/:id
OnlyRouteWithId ==
  /\ last.before.routes # None
  /\ last.before.routes[1] # << >>
  /\ \A k \in DOMAIN last.before.routes[1] :
       last.before.routes[1][k].path = << "a", "/", ":", "i", "d" >>

\* C12: with the route a/:id, and its variant a/:id/*remainingPath,
\* findMatchingRoute of a/5/b/c returns the parameter id = 5 and no
\* parameter remainingPath, matching = a/5 and remaining = b/c.
C12_RouteSplit ==
  (CalledRoute /\ OnlyRouteWithId /\ last.path = << "a", "/", "5", "/", "b", "/", "c" >>) =>
    /\ FoundARoute
    /\ DOMAIN last.found[1].params = { << "i", "d" >> }
    /\ last.found[1].params[<< "i", "d" >>] = << "5" >>
    /\ last.found[1].matching = << "a", "/", "5" >>
    /\ last.found[1].remaining = << "b", "/", "c" >>

\* The path of the last call as the recognizer was given it
PathGiven == StripLeading(last.path)

\* C13: when a route is matched through its remaining-path variant, matching
\* is the path, without its leading '/' or '+', less the remaining text at
\* its end, also when the remaining text occurs earlier in the path.
C13_MatchingIsPathLessRemaining ==
  (FoundARoute /\ last.found[1].remaining # << >>) =>
    last.found[1].matching =
      SubSeq(PathGiven, 1, Len(PathGiven) - Len(last.found[1].remaining))

\* No route of the table the last call was given matches its path
NoRouteMatches ==
  /\ last.before.routes # None
  /\ recognize(ConfigurableRoutes(last.before.routes[1]), PathGiven) = None

\* C14: when a route table is declared and no route of it matches the path,
\* findMatchingRoute returns a found route without a match and without
\* instructions; when no route table is declared it returns null.
C14_NoMatchIsNoConfiguration ==
  CalledRoute =>
    /\ last.before.routes = None => last.found = None
    /\ NoRouteMatches =>
         /\ last.found # None
         /\ ~foundConfiguration(last.found[1])
         /\ last.found[1].instructions = << >>

\* A table with routes was given a path that none of them matches
C14_Witness ==
  /\ CalledRoute
  /\ NoRouteMatches
  /\ last.before.routes[1] # << >>
  /\ last.found # None
  /\ last.found[1].match = None

\* C15: findMatchingRoute never modifies the declared routes: their id, their
\* list of instructions, the instructions in it; neither does a change of
\* the instructions of a found route.
C15_DeclaredRoutesUnchanged ==
  [][ /\ routes' = routes
      /\ \A i \in DOMAIN DeclaredInstructions : instructions'[i] = instructions[i] ]_vars

\* The instructions of the found route of the last call, at every depth
FoundTree == TreeOf(instructions, last.found[1].instructions)

\* Every instruction of the found route has the parameters of the match
AllHaveParams ==
  \A i \in FoundTree :
    \A name \in DOMAIN last.found[1].params :
      /\ name \in DOMAIN instructions[i].parameters
      /\ instructions[i].parameters[name] = last.found[1].params[name]

\* The first instruction of the found route has the found route as its
\* route, every other one has ''
OnlyFirstHasRoute ==
  \A i \in FoundTree :
    instructions[i].route =
      IF i = last.found[1].instructions[1] THEN last.id ELSE EmptyRoute

\* C16 as stated: after a match every instruction of the found route, at
\* every depth, has the parameters, and exactly one instruction, the first
\* of the list, has the found route as its route, every other one ''.
C16_ExactlyOneHasRoute ==
  FoundARoute =>
    /\ AllHaveParams
    /\ OnlyFirstHasRoute
    /\ Cardinality({ i \in FoundTree : instructions[i].route = last.id }) = 1

\* C16: after a match with a route that has an instruction, every
\* instruction of the found route, at every depth, has the parameters, and
\* exactly one instruction, the first of the list, has the found route as
\* its route, every other one ''.
C16_FirstHasRoute ==
  (FoundARoute /\ last.found[1].instructions # << >>) =>
    /\ AllHaveParams
    /\ OnlyFirstHasRoute
    /\ Cardinality({ i \in FoundTree : instructions[i].route = last.id }) = 1

\* A route was found whose first instruction has an instruction below it,
\* with a parameter
C16_Witness ==
  /\ FoundARoute
  /\ last.found[1].params # << >>
  /\ last.found[1].instructions # << >>
  /\ instructions[last.found[1].instructions[1]].nextScopeInstructions # << >>
  /\ Cardinality(FoundTree) >= 2

(***************************************************************************)
(* Specification SpecAccept: acceptSegment of a ViewportScope with any     *)
(* name and any list of catches is asked about a segment.                  *)
(***************************************************************************)
AcceptNames == { "list", "b" }

CatchesEntries == { "a", "b", "a*", "*" }

Segments == { "", clearViewportInstruction, addViewportInstruction, "list", "a", "ab", "b", "c" }

\* The lists of catches of up to MaxCatches entries
CatchesLists == UNION { [ 1 .. n -> CatchesEntries ] : n \in 0 .. MaxCatches }

InitAccept ==
  /\ \E name \in AcceptNames, catches \in CatchesLists :
       scopes = << ViewportScope(1, name, Null, TRUE, FALSE, catches, Null, NullContent) >>
  /\ collections = << >>
  /\ itemId = << >>
  /\ instructions = << >>
  /\ promises = << >>
  /\ routes = << >>
  /\ last = NoOperation
  /\ prev = NoOperation
  /\ ops = 0

\* ViewportScope.acceptSegment(segment) is called and returns
AcceptSegment(segment) ==
  /\ last' = [ op |-> "acceptSegment", segment |-> segment,
               result |-> acceptSegment(State, 1, segment) ]
  /\ prev' = last
  /\ ops' = 1
  /\ UNCHANGED <<scopes, collections, itemId, instructions, promises, routes>>

NextAccept == \E segment \in Segments : AcceptSegment(segment)

SpecAccept == InitAccept /\ [][NextAccept]_vars

\* A catches entry with a wildcard covers the segment: '*' covers every
\* segment, 'a*' those that begin with a
WildcardCovers(entry, segment) ==
  \/ entry = "*"
  \/ entry = "a*" /\ segment \in { "a", "ab" }

\* The segment is one that every slot accepts
AlwaysAccepted(segment) ==
  \/ segment = ""
  \/ segment = clearViewportInstruction
  \/ segment = addViewportInstruction
  \/ segment = scopes[1].name

\* C22: acceptSegment is true for an empty segment, the clear and the add
\* sentinel and the name of the slot, true for every segment when there are
\* no catches, and otherwise true exactly when the segment is listed in
\* catches or covered by a wildcard entry of catches.
C22_CatchesDecide ==
  last.op = "acceptSegment" =>
    last.result =
      ( \/ AlwaysAccepted(last.segment)
        \/ scopes[1].catches = << >>
        \/ \E k \in DOMAIN scopes[1].catches :
             \/ scopes[1].catches[k] = last.segment
             \/ WildcardCovers(scopes[1].catches[k], last.segment) )


(***************************************************************************)
(* Scope.removeViewport and the values the removals return.                *)
(***************************************************************************)
\* Scope.removeViewport, its condition: (!element && !container) ||
\* viewport.remove(element, container); removed is what viewport.remove
\* answers, container is null.
removeViewportReturn(element, removed) == element = Null \/ removed

\* Scope.removeViewport(viewport, element, container)
removeViewport(st, s, viewport, element, removed) ==
  IF removeViewportReturn(element, removed) THEN removeChild(st, s, viewport) ELSE st

\* Scope.removeViewportScope(viewportScope): return true
removeViewportScopeReturn == TRUE

(***************************************************************************)
(* Specification SpecChildren: the children lists of a tree below the      *)
(* router's root scope under addViewport, addViewportScope,                *)
(* removeViewport, removeViewportScope, addChild and removeChild, called   *)
(* on any scope with any scope, viewport or viewport scope constructed so  *)
(* far.                                                                    *)
(***************************************************************************)
Elements == { Null, 1, 2 }

RECURSIVE IsAncestorOrSelf(_, _, _)
\* a is s or is reached from s by parent references
IsAncestorOrSelf(st, a, s) ==
  IF s = Null THEN FALSE
  ELSE IF a = s THEN TRUE
  ELSE IsAncestorOrSelf(st, a, st.scopes[s].parent)

\* A call, its arguments, the value it returned and the tree it started from
TreeCall(op, s, arg, result, st) ==
  [ op |-> op, scope |-> s, arg |-> arg, result |-> result, threw |-> st.threw,
    before |-> [ collections |-> collections, scopes |-> scopes ] ]

InitChildren ==
  /\ scopes = [ s \in 1 .. (MaxChildScopes + 1) |->
                  IF s = RootScope
                  THEN ViewportScope(s, "rootScope", Null, TRUE, TRUE, << >>, Null, NullContent)
                  ELSE FreeScope ]
  /\ collections = << >>
  /\ itemId = << >>
  /\ instructions = << >>
  /\ last = NoOperation
  /\ prev = NoOperation
  /\ ops = 0
  /\ promises = << >>
  /\ routes = << >>

AddViewportCall(s, element, scope) ==
  /\ ops < MaxChildOps
  /\ s \in Existing(State)
  /\ LET st == addViewport(State, s, "main", element, scope, << >>)
     IN ~st.full /\ Apply(st, TreeCall("addViewport", s, element, Null, st))

AddViewportScopeCall(s, catches) ==
  /\ ops < MaxChildOps
  /\ s \in Existing(State)
  /\ LET st == addViewportScope(State, s, "list", catches, Null)
     IN ~st.full /\ Apply(st, TreeCall("addViewportScope", s, Null, Null, st))

RemoveViewportCall(s, viewport, element, removed) ==
  /\ ops < MaxChildOps
  /\ s \in Existing(State)
  /\ viewport \in Existing(State)
  /\ isViewport(State, viewport)
  \* viewport.remove answers true only for the element the viewport has
  /\ removed => element = scopes[viewport].element
  /\ Apply(removeViewport(State, s, viewport, element, removed),
           TreeCall("removeViewport", s, viewport,
                    removeViewportReturn(element, removed), State))

RemoveViewportScopeCall(s, viewportScope) ==
  /\ ops < MaxChildOps
  /\ s \in Existing(State)
  /\ viewportScope \in Existing(State) \ { RootScope }
  /\ isViewportScope(State, viewportScope)
  /\ Apply(removeViewportScope(State, s, viewportScope),
           TreeCall("removeViewportScope", s, viewportScope, removeViewportScopeReturn, State))

\* addChild of a scope that is not the scope itself nor above it
AddChildCall(s, scope) ==
  /\ ops < MaxChildOps
  /\ s \in Existing(State)
  /\ scope \in Existing(State) \ { RootScope }
  /\ ~IsAncestorOrSelf(State, scope, s)
  /\ Apply(addChild(State, s, scope), TreeCall("addChild", s, scope, Null, State))

RemoveChildCall(s, scope) ==
  /\ ops < MaxChildOps
  /\ s \in Existing(State)
  /\ scope \in Existing(State) \ { RootScope }
  /\ Apply(removeChild(State, s, scope), TreeCall("removeChild", s, scope, Null, State))

NextChildren ==
  \/ \E s \in DOMAIN scopes, element \in Elements, scope \in BOOLEAN :
       AddViewportCall(s, element, scope)
  \/ \E s \in DOMAIN scopes, catches \in { << >>, << "a" >> } : AddViewportScopeCall(s, catches)
  \/ \E s \in DOMAIN scopes, viewport \in DOMAIN scopes, element \in Elements, removed \in BOOLEAN :
       RemoveViewportCall(s, viewport, element, removed)
  \/ \E s \in DOMAIN scopes, viewportScope \in DOMAIN scopes :
       RemoveViewportScopeCall(s, viewportScope)
  \/ \E s \in DOMAIN scopes, scope \in DOMAIN scopes : AddChildCall(s, scope)
  \/ \E s \in DOMAIN scopes, scope \in DOMAIN scopes : RemoveChildCall(s, scope)

SpecChildren == InitChildren /\ [][NextChildren]_vars

\* The children lists and the parent references of a heap
TreeShape(heap) == [ s \in DOMAIN heap |-> << heap[s].children, heap[s].parent >> ]

RemovedAbsent ==
  /\ last.op \in { "removeViewport", "removeViewportScope" }
  /\ ~includes(last.before.scopes[last.scope].children, last.arg)

\* C23: removeViewport and removeViewportScope called with a viewport or
\* viewport scope whose connected scope is not a child of the scope leave
\* the children lists and all parent references unchanged, raise no
\* exception and return false.
C23_RemovingAbsentReportsFailure ==
  RemovedAbsent =>
    /\ TreeShape(scopes) = TreeShape(last.before.scopes)
    /\ ~last.threw
    /\ last.result = FALSE

\* What holds of C23: the tree is left alone and nothing is thrown
C23_RemovingAbsentIsNoOp ==
  RemovedAbsent =>
    /\ TreeShape(scopes) = TreeShape(last.before.scopes)
    /\ ~last.threw


\* C29: after any sequence of addChild, removeChild, addViewport,
\* addViewportScope, removeViewport and removeViewportScope calls every scope
\* is in at most one children list and at most once in it, and scope.parent
\* is p exactly when the scope is in p.children (null when it is in none).
\* A scope has one parent reference, so it is in no list but its parent's.
C29_ChildrenExclusivelyOwned ==
  /\ \A p \in DOMAIN scopes :
       /\ \A j, k \in DOMAIN scopes[p].children :
            j # k => scopes[p].children[j] # scopes[p].children[k]
       /\ \A k \in DOMAIN scopes[p].children : scopes[scopes[p].children[k]].parent = p
  /\ \A c \in DOMAIN scopes :
       scopes[c].parent # Null => includes(scopes[scopes[c].parent].children, c)

\* addChild has moved a scope from the children of one scope to those of
\* another
C29_Witness ==
  /\ last.op = "addChild"
  /\ last.before.scopes[last.arg].parent \notin { Null, last.scope }
  /\ scopes[last.arg].parent = last.scope
  /\ Len(scopes[last.scope].children) >= 2

(***************************************************************************)
(* Specification SpecViewports: addViewport calls, with either of two      *)
(* names, any host element or none and either scope option, all made on    *)
(* one scope: the root scope, which owns a boundary, or the connected      *)
(* scope of a viewport that was added to the root without the scope        *)
(* option and owns none.                                                   *)
(***************************************************************************)
HostScope == 2
ViewportNames == { "main", "side" }

\* The root scope alone
RootOnly ==
  [ scopes |-> [ s \in 1 .. (MaxViewports + 2) |->
                   IF s = RootScope
                   THEN ViewportScope(s, "rootScope", Null, TRUE, TRUE, << >>, Null, NullContent)
                   ELSE FreeScope ],
    collections |-> << >>, itemId |-> << >>, instructions |-> << >>,
    threw |-> FALSE, full |-> FALSE ]

\* The scope the calls are made on
Receiver(heap) == IF heap[HostScope].name = "host" THEN HostScope ELSE RootScope

InitViewports ==
  /\ scopes \in { RootOnly.scopes,
                  addViewport(RootOnly, RootScope, "host", Null, FALSE, << >>).scopes }
  /\ collections = << >>
  /\ itemId = << >>
  /\ instructions = << >>
  /\ last = NoOperation
  /\ prev = NoOperation
  /\ ops = 0
  /\ promises = << >>
  /\ routes = << >>

AddViewportOnReceiver(name, element, scope) ==
  LET st == addViewport(State, Receiver(scopes), name, element, scope, << >>)
  IN /\ ops < MaxViewports
     /\ ~st.full
     /\ Apply(st, [ op |-> "addViewport", scope |-> Receiver(scopes), name |-> name,
                    element |-> element, threw |-> st.threw,
                    before |-> [ collections |-> collections, scopes |-> scopes ] ])

NextViewports ==
  \E name \in ViewportNames, element \in Elements, scope \in BOOLEAN :
    AddViewportOnReceiver(name, element, scope)

SpecViewports == InitViewports /\ [][NextViewports]_vars

\* The enabled viewports of a name among the children of s
EnabledNamed(heap, s, name) ==
  { c \in Range(heap[s].children) :
      heap[c].kind = "viewport" /\ heap[c].enabled /\ heap[c].name = name }

\* The viewports of a name and element among the children of s
ForElement(heap, s, name, element) ==
  { c \in Range(heap[s].children) :
      heap[c].kind = "viewport" /\ heap[c].name = name /\ heap[c].element = element }

AtMostOneEnabled(heap, s) ==
  \A name \in ViewportNames : Cardinality(EnabledNamed(heap, s, name)) <= 1

\* The last call claimed its name for an element other than the one that
\* the viewport v, enabled for the name, has
ClaimedByOther(v) ==
  /\ last.op = "addViewport"
  /\ last.element # Null
  /\ v \in EnabledNamed(last.before.scopes, last.scope, last.name)
  /\ last.before.scopes[v].element # Null
  /\ last.before.scopes[v].element # last.element

\* The viewport for the element of the last call is enabled: the one there
\* was, or else one the call created
Replaced(v) ==
  /\ ~scopes[v].enabled
  /\ \E w \in ForElement(scopes, last.scope, last.name, last.element) : scopes[w].enabled
  /\ LET was == ForElement(last.before.scopes, last.scope, last.name, last.element)
     IN IF was = { }
        THEN Existing(State) # Existing([ scopes |-> last.before.scopes ])
        ELSE /\ Existing(State) = Existing([ scopes |-> last.before.scopes ])
             /\ \E w \in was : scopes[w].enabled

C24_Holds(s) ==
  /\ AtMostOneEnabled(scopes, s)
  /\ \A v \in DOMAIN scopes : ClaimedByOther(v) => Replaced(v)

\* C24: after any sequence of addViewport calls on a scope, whether it owns
\* a boundary or not, at most one enabled viewport of each name is among its
\* children; a name claimed by an element other than that of the enabled
\* viewport of the name disables that viewport, and the viewport for the new
\* element is created, or enabled again if there is one already.
C24_OneEnabledViewportPerName == C24_Holds(Receiver(scopes))

\* What holds of C24: the same on a scope that owns a boundary
C24_OnBoundaryOwner == Receiver(scopes) = RootScope => C24_Holds(RootScope)


(***************************************************************************)
(* Specification SpecReplaced: the root scope with viewport scopes added   *)
(* to it, each enabled or disabled, under disableReplacedChildren,         *)
(* reenableReplacedChildren, clearReplacedChildren and the enabled setter. *)
(***************************************************************************)
RECURSIVE WithChildren(_, _)
\* count viewport scopes added to the root, one by one
WithChildren(st, count) ==
  IF count = 0 THEN st
  ELSE WithChildren(addViewportScope(st, RootScope, "list", << "a" >>, Null), count - 1)

\* The root scope alone, with room for MaxReplaced scopes
ReplacedRoot ==
  [ RootOnly EXCEPT
      !.scopes = [ s \in 1 .. (MaxReplaced + 1) |->
                     IF s = RootScope
                     THEN ViewportScope(s, "rootScope", Null, TRUE, TRUE, << >>, Null, NullContent)
                     ELSE FreeScope ] ]

InitReplaced ==
  /\ \E count \in 0 .. MaxReplaced, disabled \in SUBSET (2 .. (MaxReplaced + 1)) :
       /\ disabled \subseteq 2 .. (count + 1)
       /\ scopes = [ s \in 1 .. (MaxReplaced + 1) |->
                       IF s \in disabled
                       THEN [ WithChildren(ReplacedRoot, count).scopes[s] EXCEPT !.enabled = FALSE ]
                       ELSE WithChildren(ReplacedRoot, count).scopes[s] ]
  /\ collections = << >>
  /\ itemId = << >>
  /\ instructions = << >>
  /\ last = NoOperation
  /\ prev = NoOperation
  /\ ops = 0
  /\ promises = << >>
  /\ routes = << >>

DisableReplaced(s) ==
  /\ ops < MaxReplaceOps
  /\ s \in Existing(State)
  /\ Apply(disableReplacedChildren(State, s),
           TreeCall("disableReplacedChildren", s, Null, Null, State))

ReenableReplaced(s) ==
  /\ ops < MaxReplaceOps
  /\ s \in Existing(State)
  /\ Apply(reenableReplacedChildren(State, s),
           TreeCall("reenableReplacedChildren", s, Null, Null, State))

ClearReplaced(s) ==
  /\ ops < MaxReplaceOps
  /\ s \in Existing(State)
  /\ Apply(clearReplacedChildren(State, s),
           TreeCall("clearReplacedChildren", s, Null, Null, State))

\* The enabled setter of a viewport scope below the root
SetEnabledOf(s) ==
  /\ ops < MaxReplaceOps
  /\ s \in Existing(State) \ { RootScope }
  /\ Apply([ State EXCEPT !.scopes[s].enabled = ~@ ], TreeCall("enabled", s, Null, Null, State))

NextReplaced ==
  \/ \E s \in DOMAIN scopes : DisableReplaced(s)
  \/ \E s \in DOMAIN scopes : ReenableReplaced(s)
  \/ \E s \in DOMAIN scopes : ClearReplaced(s)
  \/ \E s \in DOMAIN scopes : SetEnabledOf(s)

SpecReplaced == InitReplaced /\ [][NextReplaced]_vars

\* reenableReplacedChildren was called right after disableReplacedChildren
\* on the same scope
ReenabledRightAfter ==
  /\ last.op = "reenableReplacedChildren"
  /\ prev.op = "disableReplacedChildren"
  /\ prev.scope = last.scope

\* C28: disableReplacedChildren followed by reenableReplacedChildren gives
\* every child the enabled flag it had before the disable; between the two
\* calls every child is disabled and replacedChildren holds exactly the
\* children that were enabled.
C28_DisableThenReenableRestores ==
  /\ last.op = "disableReplacedChildren" =>
       /\ \A c \in Range(scopes[last.scope].children) : ~scopes[c].enabled
       /\ scopes[last.scope].replacedChildren =
            SelectSeq(last.before.scopes[last.scope].children,
                      LAMBDA c : last.before.scopes[c].enabled)
  /\ ReenabledRightAfter =>
       \A c \in Range(scopes[last.scope].children) :
         scopes[c].enabled = prev.before.scopes[c].enabled

\* Restored: a child that was enabled and one that was disabled before
C28_Witness ==
  /\ ReenabledRightAfter
  /\ \E c, d \in Range(scopes[last.scope].children) :
       /\ scopes[c].enabled /\ ~last.before.scopes[c].enabled
       /\ ~scopes[d].enabled /\ ~prev.before.scopes[d].enabled


(***************************************************************************)
(* Scope.findMatchingRoute.  tables gives, for each scope, the routes of   *)
(* the component its viewport or viewport scope holds (None when it        *)
(* declares none).                                                         *)
(***************************************************************************)
\* ViewportScope.getRoutes(): the routes of rootComponentType, else null
getRoutes(st, tables, s) == IF st.scopes[s].rootComponentType THEN tables[s] ELSE None

\* Viewport.getRoutes(): the routes of the component of the viewport
viewportGetRoutes(st, tables, s) == tables[s]

\* What findMatchingRouteInRoutes returned for the routes of scope s, with
\* the routes as the call left them
FoundInRoutesOf(tables, s, r) ==
  [ tables |-> [ tables EXCEPT ![s] = r.routes ], instructions |-> r.instructions,
    found |-> r.found ]

RECURSIVE findMatchingRoute(_, _, _, _, _, _), FindInChildren(_, _, _, _, _, _)
\* Scope.findMatchingRoute(path); id numbers the FoundRoute
findMatchingRoute(st, tables, heap, s, path, id) ==
  IF isViewportScope(st, s) /\ ~passThroughScope(st, s)
  THEN FoundInRoutesOf(tables, s,
         findMatchingRouteInRoutes(getRoutes(st, tables, s), heap, path, id))
  ELSE IF isViewport(st, s)
  THEN FoundInRoutesOf(tables, s,
         findMatchingRouteInRoutes(viewportGetRoutes(st, tables, s), heap, path, id))
  ELSE FindInChildren(st, tables, heap, enabledChildren(st, s), path, id)

\* Scope.findMatchingRoute, the loop over this.enabledChildren: the first
\* result that is not null is returned
FindInChildren(st, tables, heap, children, path, id) ==
  IF children = << >> THEN [ tables |-> tables, instructions |-> heap, found |-> None ]
  ELSE LET r == findMatchingRoute(st, tables, heap, Head(children), path, id)
       IN IF r.found # None THEN r
          ELSE FindInChildren(st, r.tables, r.instructions, Tail(children), path, id)

(***************************************************************************)
(* Specification SpecSearch: findMatchingRoute is called with a path on a  *)
(* scope that has no viewport and no viewport scope, whose children are    *)
(* viewports and viewport scopes with a root component, enabled or not,    *)
(* each with the route table of its component.                             *)
(***************************************************************************)
SearchPaths == { << "a" >>, << "a", "/", "5" >>, << "/", "5", "/", "b" >>, << "c" >> }

SearchTables ==
  { None, Some(<< >>), Some(<< DeclaredRoutes[3] >>), Some(<< DeclaredRoutes[1] >>),
    Some(<< DeclaredRoutes[4] >>) }

\* The child at index s: a viewport, or a viewport scope with a root
\* component
SearchChild(s, kind, enabled) ==
  [ ( IF kind = "viewport" THEN Viewport(s, "main", RootScope, TRUE, << >>)
      ELSE ViewportScope(s, "list", RootScope, TRUE, TRUE, << >>, Null, NullContent) )
    EXCEPT !.parent = RootScope, !.enabled = enabled ]

InitSearch ==
  /\ \E count \in 0 .. MaxSearchChildren :
       \E kinds \in [ 2 .. (count + 1) -> { "viewport", "viewportScope" } ],
          enabled \in [ 2 .. (count + 1) -> BOOLEAN ],
          tables \in [ 2 .. (count + 1) -> SearchTables ] :
         /\ scopes = [ s \in 1 .. (count + 1) |->
                         IF s = RootScope
                         THEN [ Scope(s, "scope", TRUE, Null, "") EXCEPT
                                  !.children = [ k \in 1 .. count |-> k + 1 ] ]
                         ELSE SearchChild(s, kinds[s], enabled[s]) ]
         /\ routes = [ s \in 1 .. (count + 1) |-> IF s = RootScope THEN None ELSE tables[s] ]
  /\ instructions = DeclaredInstructions
  /\ collections = << >>
  /\ itemId = << >>
  /\ promises = << >>
  /\ last = NoOperation
  /\ prev = NoOperation
  /\ ops = 0

SearchMatchingRoute ==
  /\ ops = 0
  /\ \E path \in SearchPaths :
       LET r == findMatchingRoute(State, routes, instructions, RootScope, path, ops + 1)
       IN /\ routes' = r.tables
          /\ instructions' = r.instructions
          /\ last' = [ op |-> "findMatchingRoute", path |-> path, id |-> ops + 1,
                       found |-> r.found,
                       before |-> [ routes |-> routes, instructions |-> instructions ] ]
  /\ prev' = last
  /\ ops' = ops + 1
  /\ UNCHANGED <<scopes, collections, itemId, promises>>

NextSearch == SearchMatchingRoute

SpecSearch == InitSearch /\ [][NextSearch]_vars

\* The route table of child c, as it was before the call, matches the path
\* of the call
WouldMatch(c) ==
  LET r == findMatchingRoute(State, last.before.routes, last.before.instructions, c,
                             last.path, last.id)
  IN r.found # None /\ foundConfiguration(r.found[1])

\* C33: on a scope that is neither a viewport nor a viewport scope that is
\* not pass-through, findMatchingRoute(path) returns a found route with a
\* matched configuration whenever at least one enabled child would match the
\* path, whatever the order of the children: a child whose route table does
\* not match does not end the search.
C33_SearchGoesOnPastNoMatch ==
  last.op = "findMatchingRoute" =>
    ( (\E c \in Range(enabledChildren(State, RootScope)) : WouldMatch(c))
      => last.found # None /\ foundConfiguration(last.found[1]) )

\* The enabled children whose findMatchingRoute does not return null
Answering ==
  SelectSeq(enabledChildren(State, RootScope),
            LAMBDA c : findMatchingRoute(State, last.before.routes, last.before.instructions,
                                         c, last.path, last.id).found # None)

\* What holds of C33: the call returns what the first enabled child with a
\* route table returns, matched or not, and null when there is none
C33_FirstTableDecides ==
  last.op = "findMatchingRoute" =>
    IF Answering = << >> THEN last.found = None
    ELSE /\ last.found # None
         /\ foundConfiguration(last.found[1]) <=> WouldMatch(Head(Answering))

====
